---- MODULE Spec2Model ----
(***************************************************************************)
(* Model of the ollama-agent execution loop (agent/agent.py) and of the   *)
(* response interpreter (agent/prompt_engine.py).                         *)
(*                                                                         *)
(* Text is a sequence of atoms.  An atom is either one structural         *)
(* character ("{", "}", "[", "]", ",", ":", the double quote, a blank, a  *)
(* newline, "!", "-", "/"), the markdown code fence, or a piece of a \w+ *)
(* run (an identifier such as delete_file, or a digit).  Every regular    *)
(* expression of the source distinguishes characters only by these        *)
(* classes, so the operators below follow the regex engine atom by atom.  *)
(***************************************************************************)
EXTENDS Integers, Sequences, FiniteSets, Bags, TLC

LB == "{"
RB == "}"
LK == "["
RK == "]"
COMMA == ","
COLON == ":"
QUOTE == "\""
SP == " "
NL == "\n"
BANG == "!"
DASH == "-"
SLASH == "/"
\* the three-backtick markdown fence
FENCE == "<fence>"

Structural == {LB, RB, LK, RK, COMMA, COLON, QUOTE, SP, NL, BANG, DASH, SLASH, FENCE}
Digits == {"1", "7"}

IsSpace(a) == a \in {SP, NL}
IsWord(a) == a \notin Structural
IsBrace(a) == a \in {LB, RB}

InRange(t, i) == i >= 1 /\ i <= Len(t)
At(t, i) == IF InRange(t, i) THEN t[i] ELSE ""

\* least element of a set of positions, d when the set is empty
First(S, d) == IF S = {} THEN d ELSE CHOOSE j \in S : \A k \in S : j <= k

\* first position at or after i that holds no atom of the class (a regex x*)
SkipWs(t, i) == First({j \in i..Len(t) : ~IsSpace(t[j])}, IF i > Len(t) THEN i ELSE Len(t) + 1)
SkipNonBrace(t, i) == First({j \in i..Len(t) : IsBrace(t[j])}, IF i > Len(t) THEN i ELSE Len(t) + 1)
SkipWord(t, i) == First({j \in i..Len(t) : ~IsWord(t[j])}, IF i > Len(t) THEN i ELSE Len(t) + 1)
SkipDigits(t, i) == First({j \in i..Len(t) : t[j] \notin Digits}, IF i > Len(t) THEN i ELSE Len(t) + 1)

\* index of the first occurrence of atom a at or after i, Len(t)+1 if none
IndexOf(t, a, i) == First({j \in i..Len(t) : j >= 1 /\ t[j] = a}, Len(t) + 1)

\* length of t[1..n] without its trailing whitespace
RStripLen(t, n) ==
    IF \E j \in 1..n : ~IsSpace(t[j])
    THEN CHOOSE j \in 1..n : ~IsSpace(t[j]) /\ \A k \in (j + 1)..n : IsSpace(t[k])
    ELSE 0

\* str.strip()
Strip(t) ==
    LET a == SkipWs(t, 1)
        b == RStripLen(t, Len(t))
    IN  IF a > b THEN <<>> ELSE SubSeq(t, a, b)

\* ---- parse_response, method 1: re.findall of
\*        \{[^{}]*(?:\{[^{}]*\}[^{}]*)*\}
RECURSIVE BraceLoop(_, _)
BraceLoop(t, p) ==
    LET q == SkipNonBrace(t, p) IN
    IF ~InRange(t, q) THEN 0
    ELSE IF t[q] = RB THEN q
    ELSE LET r == SkipNonBrace(t, q + 1) IN
         IF At(t, r) = RB THEN BraceLoop(t, r + 1) ELSE 0

\* end index of the match starting at i, 0 if the pattern does not match there
BraceMatchEnd(t, i) == IF At(t, i) = LB THEN BraceLoop(t, i + 1) ELSE 0

\* the non-overlapping matches, leftmost first, scanning from i
RECURSIVE FindAllBrace(_, _)
FindAllBrace(t, i) ==
    LET s == First({j \in i..Len(t) : BraceMatchEnd(t, j) > 0}, 0) IN
    IF s = 0 THEN <<>>
    ELSE <<SubSeq(t, s, BraceMatchEnd(t, s))>> \o FindAllBrace(t, BraceMatchEnd(t, s) + 1)

\* ---- parse_response, method 2: re.findall of
\*        <fence>(?:json)?\s*(\{.*?\})\s*<fence>     (DOTALL, IGNORECASE)
\* smallest e >= p with t[e] = "}" followed by \s* and a fence; 0 if none
LazyClose(t, p) ==
    First({e \in p..Len(t) : t[e] = RB /\ At(t, SkipWs(t, e + 1)) = FENCE}, 0)

\* the match whose \s*\{ starts at k: [s, e] is the group, 0 if none
FenceBody(t, k) ==
    LET s == SkipWs(t, k) IN
    IF At(t, s) = LB
    THEN LET e == LazyClose(t, s + 1) IN
         IF e > 0 THEN [s |-> s, e |-> e] ELSE [s |-> 0, e |-> 0]
    ELSE [s |-> 0, e |-> 0]

FenceMatch(t, i) ==
    IF At(t, i) # FENCE THEN [s |-> 0, e |-> 0]
    ELSE IF At(t, i + 1) \in {"json", "JSON"} /\ FenceBody(t, i + 2).s > 0
         THEN FenceBody(t, i + 2)
         ELSE FenceBody(t, i + 1)

RECURSIVE FindAllFence(_, _)
FindAllFence(t, i) ==
    LET f == First({j \in i..Len(t) : FenceMatch(t, j).s > 0}, 0) IN
    IF f = 0 THEN <<>>
    ELSE LET m == FenceMatch(t, f) IN
         <<SubSeq(t, m.s, m.e)>> \o FindAllFence(t, SkipWs(t, m.e + 1) + 1)

\* ---- _clean_json_string
\* re.sub(r'^<fence>(?:json)?\s*', '', s)
StripLeadingFence(t) ==
    IF At(t, 1) # FENCE THEN t
    ELSE LET j == IF At(t, 2) \in {"json", "JSON"} THEN 3 ELSE 2
             k == SkipWs(t, j)
         IN  SubSeq(t, k, Len(t))

\* re.sub(r'\s*<fence>$', '', s)
StripTrailingFence(t) ==
    IF Len(t) = 0 \/ t[Len(t)] # FENCE THEN t
    ELSE SubSeq(t, 1, RStripLen(t, Len(t) - 1))

\* ([{,]\s*)(\w+)(\s*:) matches at i: the position of its colon, 0 if no match
BareKeyEnd(t, i) ==
    LET j == SkipWs(t, i + 1)
        k == SkipWord(t, j)
        m == SkipWs(t, k)
    IN  IF At(t, i) \in {LB, COMMA} /\ k > j /\ At(t, m) = COLON THEN m ELSE 0

\* re.sub(r'([{,]\s*)(\w+)(\s*:)', r'\1"\2"\3', s)
RECURSIVE QuoteKeys(_, _)
QuoteKeys(t, i) ==
    LET s == First({p \in i..Len(t) : BareKeyEnd(t, p) > 0}, 0) IN
    IF s = 0 THEN SubSeq(t, i, Len(t))
    ELSE LET j == SkipWs(t, s + 1)
             k == SkipWord(t, j)
             m == BareKeyEnd(t, s)
         IN  SubSeq(t, i, j - 1) \o <<QUOTE>> \o SubSeq(t, j, k - 1)
               \o <<QUOTE>> \o SubSeq(t, k, m) \o QuoteKeys(t, m + 1)

\* re.sub(r',(\s*[}\]])', r'\1', s)
RECURSIVE DropTrailingCommas(_, _)
DropTrailingCommas(t, i) ==
    LET s == First({p \in i..Len(t) :
                      t[p] = COMMA /\ At(t, SkipWs(t, p + 1)) \in {RB, RK}}, 0) IN
    IF s = 0 THEN SubSeq(t, i, Len(t))
    ELSE LET j == SkipWs(t, s + 1) IN
         SubSeq(t, i, s - 1) \o SubSeq(t, s + 1, j) \o DropTrailingCommas(t, j + 1)

_clean_json_string(json_str) ==
    LET c1 == StripTrailingFence(StripLeadingFence(Strip(json_str)))
        c2 == QuoteKeys(c1, 1)
    IN  DropTrailingCommas(c2, 1)

\* ---- json.loads
\* A decoded JSON value is the set of its nodes <<path, kind, scalar>>: path is
\* the sequence of keys from the root (a key is a text), kind is "obj", "arr",
\* "str" or "num", scalar is the text of a string or number (<<>> otherwise).
Fail == [ok |-> FALSE, pos |-> 0, ents |-> {}, deep |-> FALSE]

\* The decoder descends one interpreter frame for each nested object or array
\* and raises RecursionError, which is no JSONDecodeError, when the frames
\* the interpreter still allows are used up (a thousand by default, less what
\* the callers hold).  StackDepth is the nesting the decoder can still enter.
StackDepth == 6
TooDeep == [ok |-> FALSE, pos |-> 0, ents |-> {}, deep |-> TRUE]

IdxKeys == <<"#0", "#1", "#2", "#3", "#4", "#5", "#6", "#7">>

IsPrefix(p, q) == Len(p) <= Len(q) /\ SubSeq(q, 1, Len(p)) = p

\* dict assignment d[key] = value: a repeated key replaces the earlier value
Without(ents, p) == {e \in ents : ~IsPrefix(p, e[1])}

HasControlChar(t) == \E i \in 1..Len(t) : t[i] = NL

RECURSIVE ParseValue(_, _, _, _)
RECURSIVE ParseMembers(_, _, _, _, _)
RECURSIVE ParseElements(_, _, _, _, _, _)

\* py_scanstring: the text between two double quotes, no raw control character
ParseString(t, i) ==
    LET j == IndexOf(t, QUOTE, i + 1) IN
    IF At(t, i) = QUOTE /\ InRange(t, j) /\ ~HasControlChar(SubSeq(t, i + 1, j - 1))
    THEN [ok |-> TRUE, pos |-> j + 1, val |-> SubSeq(t, i + 1, j - 1)]
    ELSE [ok |-> FALSE, pos |-> 0, val |-> <<>>]

ParseValue(t, i, path, depth) ==
    IF At(t, i) = QUOTE
    THEN LET s == ParseString(t, i) IN
         IF s.ok THEN [ok |-> TRUE, pos |-> s.pos, ents |-> {<<path, "str", s.val>>}]
         ELSE Fail
    ELSE IF At(t, i) \in {LB, LK} /\ depth >= StackDepth
    THEN TooDeep
    ELSE IF At(t, i) = LB
    THEN LET k == SkipWs(t, i + 1) IN
         IF At(t, k) = RB
         THEN [ok |-> TRUE, pos |-> k + 1, ents |-> {<<path, "obj", <<>>>>}]
         ELSE ParseMembers(t, k, path, {<<path, "obj", <<>>>>}, depth + 1)
    ELSE IF At(t, i) = LK
    THEN LET k == SkipWs(t, i + 1) IN
         IF At(t, k) = RK
         THEN [ok |-> TRUE, pos |-> k + 1, ents |-> {<<path, "arr", <<>>>>}]
         ELSE ParseElements(t, k, path, 1, {<<path, "arr", <<>>>>}, depth + 1)
    ELSE IF At(t, i) \in Digits
    THEN LET k == SkipDigits(t, i) IN
         [ok |-> TRUE, pos |-> k, ents |-> {<<path, "num", SubSeq(t, i, k - 1)>>}]
    ELSE Fail

\* JSONObject: "key" : value pairs from position k on, up to the closing brace
ParseMembers(t, k, path, acc, depth) ==
    LET key == ParseString(t, k) IN
    IF ~key.ok THEN Fail
    ELSE LET c == SkipWs(t, key.pos) IN
         IF At(t, c) # COLON THEN Fail
         ELSE LET v   == ParseValue(t, SkipWs(t, c + 1), Append(path, key.val), depth)
                  q   == SkipWs(t, v.pos)
                  new == Without(acc, Append(path, key.val)) \cup v.ents
              IN  IF ~v.ok THEN v
                  ELSE IF At(t, q) = RB THEN [ok |-> TRUE, pos |-> q + 1, ents |-> new]
                  ELSE IF At(t, q) = COMMA
                       THEN ParseMembers(t, SkipWs(t, q + 1), path, new, depth)
                       ELSE Fail

\* JSONArray: values from position k on, up to the closing bracket
ParseElements(t, k, path, n, acc, depth) ==
    IF n > Len(IdxKeys) THEN Fail
    ELSE LET v == ParseValue(t, k, Append(path, <<IdxKeys[n]>>), depth)
             q == SkipWs(t, v.pos)
         IN  IF ~v.ok THEN v
             ELSE IF At(t, q) = RK
                  THEN [ok |-> TRUE, pos |-> q + 1, ents |-> acc \cup v.ents]
             ELSE IF At(t, q) = COMMA
                  THEN ParseElements(t, SkipWs(t, q + 1), path, n + 1, acc \cup v.ents, depth)
                  ELSE Fail

\* json.loads(s): one value, surrounded by optional whitespace, nothing after it
JsonLoads(t) ==
    LET v == ParseValue(t, SkipWs(t, 1), <<>>, 0) IN
    IF ~v.ok THEN v
    ELSE IF SkipWs(t, v.pos) > Len(t) THEN v ELSE Fail

\* ---- _validate_parsed_response
KeyThought == <<"thought">>
KeyTool == <<"tool">>
KeyArgs == <<"args">>

Kind(ents, path) ==
    IF \E e \in ents : e[1] = path
    THEN (CHOOSE e \in ents : e[1] = path)[2]
    ELSE "absent"

Scalar(ents, path) ==
    IF \E e \in ents : e[1] = path
    THEN (CHOOSE e \in ents : e[1] = path)[3]
    ELSE <<>>

_validate_parsed_response(parsed) ==
    /\ Kind(parsed, <<>>) = "obj"
    /\ Kind(parsed, <<KeyThought>>) = "str"
    /\ Kind(parsed, <<KeyTool>>) = "str"
    /\ Kind(parsed, <<KeyArgs>>) \in {"absent", "obj"}

\* ---- parse_response
\* json.loads of a text that becomes the value stored under path; the caller
\* catches whatever it raises
JsonLoadsAt(t, path) ==
    LET v == ParseValue(t, SkipWs(t, 1), path, 0) IN
    IF v.ok /\ SkipWs(t, v.pos) > Len(t) THEN v ELSE Fail

\* "<key>":\s*"([^"]*)" matches at i
KeyStringAt(t, key, i) ==
    LET j == SkipWs(t, i + 4) IN
    /\ At(t, i) = QUOTE /\ At(t, i + 1) = key /\ At(t, i + 2) = QUOTE
    /\ At(t, i + 3) = COLON /\ At(t, j) = QUOTE /\ InRange(t, IndexOf(t, QUOTE, j + 1))

\* re.search(r'"<key>":\s*"([^"]*)"', text): [found, val] of the leftmost match
SearchKeyString(t, key) ==
    LET i == First({p \in 1..Len(t) : KeyStringAt(t, key, p)}, 0)
        j == SkipWs(t, i + 4)
    IN  IF i = 0 THEN [found |-> FALSE, val |-> <<>>]
        ELSE [found |-> TRUE, val |-> SubSeq(t, j + 1, IndexOf(t, QUOTE, j + 1) - 1)]

\* "args":\s*(\{[^}]*\}) matches at i
ArgsAt(t, i) ==
    LET j == SkipWs(t, i + 4) IN
    /\ At(t, i) = QUOTE /\ At(t, i + 1) = "args" /\ At(t, i + 2) = QUOTE
    /\ At(t, i + 3) = COLON /\ At(t, j) = LB /\ InRange(t, IndexOf(t, RB, j + 1))

\* re.search(r'"args":\s*(\{[^}]*\})', text): [found, val] of the leftmost match
SearchArgs(t) ==
    LET i == First({p \in 1..Len(t) : ArgsAt(t, p)}, 0)
        j == SkipWs(t, i + 4)
    IN  IF i = 0 THEN [found |-> FALSE, val |-> <<>>]
        ELSE [found |-> TRUE, val |-> SubSeq(t, j, IndexOf(t, RB, j + 1))]

JsonCandidates(response_text) ==
    LET whole == Strip(response_text) IN
    FindAllBrace(response_text, 1) \o FindAllFence(response_text, 1)
      \o (IF Len(whole) > 0 /\ whole[1] = LB /\ whole[Len(whole)] = RB
          THEN <<whole>> ELSE <<>>)

\* the manual reconstruction after every candidate was rejected
Reconstruct(response_text, errors) ==
    LET thought_match == SearchKeyString(response_text, "thought")
        tool_match    == SearchKeyString(response_text, "tool")
        args_match    == SearchArgs(response_text)
        loaded        == JsonLoadsAt(args_match.val, <<KeyArgs>>)
        args          == IF args_match.found /\ loaded.ok
                         THEN loaded.ents ELSE {<<<<KeyArgs>>, "obj", <<>>>>}
        reconstructed == {<<<<>>, "obj", <<>>>>,
                          <<<<KeyThought>>, "str", thought_match.val>>,
                          <<<<KeyTool>>, "str", tool_match.val>>} \cup args
    IN  IF thought_match.found /\ tool_match.found
           /\ _validate_parsed_response(reconstructed)
        THEN [none |-> FALSE, parsed |-> reconstructed, raised |-> FALSE,
              errors |-> <<"Reconstructed from partial parse">>]
        ELSE [none |-> TRUE, parsed |-> {}, raised |-> FALSE,
              errors |-> Append(errors, "Could not parse any valid JSON from response")]

RECURSIVE TryCandidates(_, _, _, _)
TryCandidates(response_text, cands, n, errors) ==
    IF n > Len(cands) THEN Reconstruct(response_text, errors)
    ELSE LET parsed == JsonLoads(_clean_json_string(cands[n])) IN
         IF ~parsed.ok /\ parsed.deep
         THEN [none |-> TRUE, parsed |-> {}, raised |-> TRUE, errors |-> errors]
         ELSE IF ~parsed.ok
         THEN TryCandidates(response_text, cands, n + 1,
                            Append(errors, "JSON decode error"))
         ELSE IF _validate_parsed_response(parsed.ents)
              THEN [none |-> FALSE, parsed |-> parsed.ents, raised |-> FALSE, errors |-> <<>>]
              ELSE TryCandidates(response_text, cands, n + 1,
                                 Append(errors, "Invalid response structure"))

parse_response(response_text) ==
    IF Len(Strip(response_text)) = 0
    THEN [none |-> TRUE, parsed |-> {}, raised |-> FALSE,
          errors |-> <<"Empty response from model">>]
    ELSE TryCandidates(response_text, JsonCandidates(response_text), 1, <<>>)

\* ---- the tool registry (tools.TOOLS)
\* A name is a text of one atom.  The model keeps the four mutating tools, the
\* three tools the recovery ladder can pick and one tool called with keyword
\* arguments behind the catch-all; the other registry entries are dispatched
\* exactly like create_file.
T(a) == <<a>>

TOOLS == {T("execute_shell_command"), T("modify_file"), T("delete_file"),
          T("move_file"), T("create_file"), T("list_directory"),
          T("get_current_directory"), T("get_memory_statistics")}

NO_OP == T("no_op")
FINISH == T("finish")

\* available_tools = list(tools.TOOLS.keys()) + ["no_op", "finish"], in order
available_tools ==
    <<T("execute_shell_command"), T("create_file"), T("modify_file"),
      T("list_directory"), T("move_file"), T("delete_file"),
      T("get_current_directory"), T("get_memory_statistics"), NO_OP, FINISH>>

Range(f) == {f[i] : i \in DOMAIN f}

\* ---- difflib.get_close_matches(word, possibilities, n=1, cutoff=0.6)
\* the characters of an atom
AtomChars(a) ==
    CASE
       a = "execute_shell_command" -> <<"e", "x", "e", "c", "u", "t", "e", "_", "s", "h", "e", "l", "l", "_", "c", "o", "m", "m", "a", "n", "d">>
    [] a = "modify_file" -> <<"m", "o", "d", "i", "f", "y", "_", "f", "i", "l", "e">>
    [] a = "delete_file" -> <<"d", "e", "l", "e", "t", "e", "_", "f", "i", "l", "e">>
    [] a = "move_file" -> <<"m", "o", "v", "e", "_", "f", "i", "l", "e">>
    [] a = "create_file" -> <<"c", "r", "e", "a", "t", "e", "_", "f", "i", "l", "e">>
    [] a = "list_directory" -> <<"l", "i", "s", "t", "_", "d", "i", "r", "e", "c", "t", "o", "r", "y">>
    [] a = "get_current_directory" -> <<"g", "e", "t", "_", "c", "u", "r", "r", "e", "n", "t", "_", "d", "i", "r", "e", "c", "t", "o", "r", "y">>
    [] a = "get_memory_statistics" -> <<"g", "e", "t", "_", "m", "e", "m", "o", "r", "y", "_", "s", "t", "a", "t", "i", "s", "t", "i", "c", "s">>
    [] a = "no_op" -> <<"n", "o", "_", "o", "p">>
    [] a = "finish" -> <<"f", "i", "n", "i", "s", "h">>
    [] a = "noop" -> <<"n", "o", "o", "p">>
    [] a = "list_dir" -> <<"l", "i", "s", "t", "_", "d", "i", "r">>
    [] a = "frobnicate" -> <<"f", "r", "o", "b", "n", "i", "c", "a", "t", "e">>
    [] a = "remove_file" -> <<"r", "e", "m", "o", "v", "e", "_", "f", "i", "l", "e">>
    [] OTHER -> <<a>>

RECURSIVE Chars(_)
Chars(text) == IF text = <<>> THEN <<>> ELSE AtomChars(Head(text)) \o Chars(Tail(text))

\* the characters in ASCII order, for the comparison of strings
Ascii == <<"_", "a", "b", "c", "d", "e", "f", "g", "h", "i", "j", "k", "l", "m",
           "n", "o", "p", "q", "r", "s", "t", "u", "v", "w", "x", "y", "z">>

Ord(c) == First({i \in 1..Len(Ascii) : Ascii[i] = c}, 0)

\* a > b for strings (lists of characters)
RECURSIVE StrGreater(_, _)
StrGreater(a, b) ==
    IF a = <<>> THEN FALSE
    ELSE IF b = <<>> THEN TRUE
    ELSE IF Ord(Head(a)) # Ord(Head(b)) THEN Ord(Head(a)) > Ord(Head(b))
    ELSE StrGreater(Tail(a), Tail(b))

\* length of the common run of a from i and b from j, inside [i, ahi) x [j, bhi)
RECURSIVE RunLen(_, _, _, _, _, _)
RunLen(a, i, ahi, b, j, bhi) ==
    IF i < ahi /\ j < bhi /\ a[i] = b[j] THEN 1 + RunLen(a, i + 1, ahi, b, j + 1, bhi)
    ELSE 0

\* SequenceMatcher.find_longest_match: the longest block, earliest in a, then
\* earliest in b (no junk: autojunk needs 200 elements)
find_longest_match(a, alo, ahi, b, blo, bhi) ==
    LET P    == (alo..(ahi - 1)) \X (blo..(bhi - 1))
        best == IF P = {} THEN <<alo, blo>>
                ELSE CHOOSE p \in P : \A q \in P :
                       LET kp == RunLen(a, p[1], ahi, b, p[2], bhi)
                           kq == RunLen(a, q[1], ahi, b, q[2], bhi)
                       IN  \/ kp > kq
                           \/ kp = kq /\ p[1] < q[1]
                           \/ kp = kq /\ p[1] = q[1] /\ p[2] <= q[2]
    IN  [i |-> best[1], j |-> best[2],
         k |-> IF P = {} THEN 0 ELSE RunLen(a, best[1], ahi, b, best[2], bhi)]

\* sum of the sizes of SequenceMatcher.get_matching_blocks
RECURSIVE MatchingSize(_, _, _, _, _, _)
MatchingSize(a, alo, ahi, b, blo, bhi) ==
    LET m == find_longest_match(a, alo, ahi, b, blo, bhi) IN
    IF m.k = 0 THEN 0
    ELSE m.k + MatchingSize(a, alo, m.i, b, blo, m.j)
             + MatchingSize(a, m.i + m.k, ahi, b, m.j + m.k, bhi)

\* SequenceMatcher(None, x, word): a is the possibility, b is the word
Matches(x, word) == MatchingSize(x, 1, Len(x) + 1, word, 1, Len(word) + 1)

\* ratio() >= 0.6, with ratio = 2.0 * matches / (len(a) + len(b)), 1.0 if both empty
RatioAtLeastCutoff(x, word) ==
    IF Len(x) + Len(word) = 0 THEN TRUE
    ELSE 10 * Matches(x, word) >= 3 * (Len(x) + Len(word))

\* (ratio(x), x) > (ratio(y), y), the order of heapq.nlargest
Better(x, y, word) ==
    LET tx == Len(x) + Len(word)
        ty == Len(y) + Len(word)
        mx == Matches(x, word)
        my == Matches(y, word)
    IN  \/ mx * ty > my * tx
        \/ mx * ty = my * tx /\ StrGreater(x, y)

None == <<"<None>">>

\* ResponseValidator.suggest_tool_correction
\* a corrector that hands an unmatched name back instead of None
suggest_tool_correction_echo(attempted_tool, tools_list) == attempted_tool

suggest_tool_correction(attempted_tool, tools_list) ==
    LET word == Chars(attempted_tool)
        close == {x \in Range(tools_list) : RatioAtLeastCutoff(Chars(x), word)}
    IN  IF close = {} THEN None
        ELSE CHOOSE x \in close :
               \A y \in close \ {x} : Better(Chars(x), Chars(y), word)

\* ---- substring tests on lower-cased text
\* <<a, w>>: the lower-cased atom a contains the word w.  No word looked for
\* contains a blank, so a text contains w exactly when one of its atoms does.
LowerContains ==
    {<<"Analyze", "analyze">>,
     <<"Error", "error">>,
     <<"all", "all">>,
     <<"analyze", "analyze">>,
     <<"comprehensive", "comprehensive">>,
     <<"errors", "error">>,
     <<"then", "then">>,
     <<"MEMORY", "memory">>,
     <<"Show", "show">>,
     <<"show", "show">>,
     <<"statistics", "statistics">>,
     <<"unlisted", "list">>,
     <<"and", "and">>,
     <<"calling", "all">>,
     <<"command", "and">>,
     <<"list", "list">>,
     <<"memory", "memory">>,
     <<"test", "test">>}

Has(text, w) == \E i \in 1..Len(text) : <<text[i], w>> \in LowerContains

\* text.lower().count(w)
Count(text, w) == Cardinality({i \in 1..Len(text) : <<text[i], w>> \in LowerContains})

\* 'unknown tool' in text.lower()
HasUnknownTool(text) ==
    \E i \in 1..Len(text) :
        text[i] = "Unknown" /\ At(text, i + 1) = SP /\ At(text, i + 2) = "tool"

\* len(text.split())
WordCount(text) ==
    Cardinality({i \in 1..Len(text) :
                   ~IsSpace(text[i]) /\ (i = 1 \/ IsSpace(text[i - 1]))})

\* ---- actions
\* An action is a decoded JSON object (see json.loads above).
EmptyDict == {<<<<>>, "obj", <<>>>>}

\* the value stored under key, as a value of its own
Sub(ents, key) ==
    {<<Tail(e[1]), e[2], e[3]>> : e \in {x \in ents : IsPrefix(<<key>>, x[1])}}

\* the value v stored under key
Under(key, v) == {<<<<key>> \o e[1], e[2], e[3]>> : e \in v}

StrVal(text) == {<<<<>>, "str", text>>}
NumVal(text) == {<<<<>>, "num", text>>}

\* {k: "v"} for string values
Dict1(k, v) == EmptyDict \cup Under(T(k), StrVal(v))
Dict2(k1, v1, k2, v2) == Dict1(k1, v1) \cup Under(T(k2), StrVal(v2))

MkAction(thought, tool, args) ==
    EmptyDict \cup Under(KeyThought, StrVal(thought)) \cup Under(KeyTool, StrVal(tool))
              \cup Under(KeyArgs, args)

\* d.get(key, default) for a value that is read as a string
Keys(d) == {e[1][1] : e \in {x \in d : Len(x[1]) = 1}}
GetKind(d, key) == Kind(d, <<key>>)
GetText(d, key) == Scalar(d, <<key>>)

\* ---- suggest_recovery_action
HasError(text) == Has(text, "error")

Failed_by_unknown_tool_only(entry) == HasUnknownTool(entry.result)

Failed(entry) == HasError(entry.result) \/ HasUnknownTool(entry.result)

LastN_whole(h, n) == h

LastN(h, n) == IF Len(h) >= n THEN SubSeq(h, Len(h) - n + 1, Len(h)) ELSE h

suggest_recovery_action(goal_text, hist, errors) ==
    LET recent_actions == LastN(hist, 3)
        failed_tools   == {i \in 1..Len(recent_actions) : Failed(recent_actions[i])}
    IN  IF hist = <<>>
        THEN MkAction(<<"Starting", SP, "with", SP, "directory", SP, "exploration">>,
                      T("list_directory"), Dict1("directory_path", <<".">>))
        ELSE IF Cardinality(failed_tools) >= 2
        THEN MkAction(<<"Multiple", SP, "tool", SP, "failures", SP, "detected">>,
                      NO_OP,
                      Dict1("reason", <<"Experiencing", SP, "parsing", SP, "errors">>))
        ELSE IF Has(goal_text, "memory") \/ Has(goal_text, "statistics")
        THEN MkAction(<<"Goal", SP, "mentions", SP, "memory">>,
                      T("get_memory_statistics"), EmptyDict)
        ELSE IF Has(goal_text, "list") \/ Has(goal_text, "show")
        THEN MkAction(<<"Goal", SP, "mentions", SP, "listing">>,
                      T("list_directory"), Dict1("directory_path", <<".">>))
        ELSE MkAction(<<"Taking", SP, "safe", SP, "exploratory", SP, "action">>,
                      T("get_current_directory"), EmptyDict)

\* ---- _calculate_adaptive_steps
complexity_indicators ==
    <<<<"create", 5>>, <<"analyze", 10>>, <<"comprehensive", 15>>, <<"test", 8>>,
      <<"implement", 12>>, <<"generate", 8>>, <<"optimize", 15>>, <<"refactor", 12>>,
      <<"document", 10>>, <<"backup", 6>>, <<"migrate", 15>>, <<"deploy", 12>>,
      <<"multiple", 8>>, <<"all", 6>>, <<"entire", 10>>, <<"complex", 15>>,
      <<"advanced", 12>>, <<"detailed", 8>>, <<"thorough", 10>>>>

conjunctions == <<"and", "then", "also", "additionally", "furthermore">>

RECURSIVE IndicatorSum(_, _)
IndicatorSum(goal_text, n) ==
    IF n = 0 THEN 0
    ELSE (IF Has(goal_text, complexity_indicators[n][1])
          THEN complexity_indicators[n][2] ELSE 0) + IndicatorSum(goal_text, n - 1)

RECURSIVE ConjunctionSum(_, _)
ConjunctionSum(goal_text, n) ==
    IF n = 0 THEN 0
    ELSE Count(goal_text, conjunctions[n]) + ConjunctionSum(goal_text, n - 1)

Max(a, b) == IF a >= b THEN a ELSE b
Min(a, b) == IF a <= b THEN a ELSE b

\* -- the floats of the computation
\* A float is the natural number of units of 2^-FractionBits it is worth,
\* written as its bits from the lowest up, the highest bit last.  No float of
\* this computation has a bit below 2^-57, the last bit of 0.05.
FractionBits == 57

\* without the zeros above the highest one
Normalize(a) ==
    LET ones == {i \in 1..Len(a) : a[i] = 1}
    IN  IF ones = {} THEN <<>>
        ELSE SubSeq(a, 1, CHOOSE i \in ones : \A j \in ones : j <= i)

BinBit(a, i) == IF i >= 1 /\ i <= Len(a) THEN a[i] ELSE 0

\* the carry into place i: some lower place makes one and every place between
\* hands it on
BinCarry(a, b, i) ==
    IF \E j \in 1..(i - 1) :
          /\ BinBit(a, j) = 1 /\ BinBit(b, j) = 1
          /\ \A k \in (j + 1)..(i - 1) : BinBit(a, k) + BinBit(b, k) = 1
    THEN 1 ELSE 0

BinSum(a, b) ==
    LET places == (IF Len(a) >= Len(b) THEN Len(a) ELSE Len(b)) + 1
    IN  Normalize([i \in 1..places |->
                     (BinBit(a, i) + BinBit(b, i) + BinCarry(a, b, i)) % 2])

\* The operands are bound to their values before their places are added.
BinAdd(a, b) == CHOOSE sum \in {BinSum(x, y) : x \in {a}, y \in {b}} : TRUE

BinShift(a, k) == IF a = <<>> THEN a ELSE [i \in 1..k |-> 0] \o a

RECURSIVE BinMulInt(_, _)
BinMulInt(a, k) ==
    IF k = 0 THEN <<>>
    ELSE BinAdd(IF k % 2 = 1 THEN a ELSE <<>>, BinShift(BinMulInt(a, k \div 2), 1))

RECURSIVE IntOf(_)
IntOf(a) == IF a = <<>> THEN 0 ELSE a[1] + 2 * IntOf(Tail(a))

\* the bits of a hexadecimal numeral, highest digit first
RECURSIVE HexBits(_)
HexBits(digits) ==
    IF digits = <<>> THEN <<>>
    ELSE LET d == digits[Len(digits)]
         IN  Normalize(<<d % 2, (d \div 2) % 2, (d \div 4) % 2, (d \div 8) % 2>>
                       \o HexBits(SubSeq(digits, 1, Len(digits) - 1)))

\* the nearest double of an exact value: 53 significant bits, ties to even
RoundBits(a) ==
    IF Len(a) <= 53 THEN a
    ELSE LET cut    == Len(a) - 53
             kept   == [i \in 1..cut |-> 0] \o SubSeq(a, cut + 1, Len(a))
             above  == a[cut] = 1 /\ \E i \in 1..(cut - 1) : a[i] = 1
             tie    == a[cut] = 1 /\ \A i \in 1..(cut - 1) : a[i] = 0
         IN  IF above \/ (tie /\ a[cut + 1] = 1)
             THEN BinAdd(kept, BinShift(<<1>>, cut))
             ELSE kept

RoundToDouble(a) == CHOOSE double \in {RoundBits(x) : x \in {a}} : TRUE

FloatAdd(x, y) == RoundToDouble(BinAdd(x, y))
\* n * x for an int n: the int becomes a float exactly, the product is rounded
FloatMulInt(n, x) == RoundToDouble(BinMulInt(x, n))
\* int(x): the whole part
FloatToInt(x) ==
    IF Len(x) <= FractionBits THEN 0 ELSE IntOf(SubSeq(x, FractionBits + 1, Len(x)))

\* the literals 1.0, 0.1 (0x1.999999999999ap-4), 0.3 (0x1.3333333333333p-2)
\* and 0.05 (0x1.999999999999ap-5)
Float_1_0 == BinShift(<<1>>, FractionBits)
Float_0_1 == BinShift(HexBits(<<1, 9, 9, 9, 9, 9, 9, 9, 9, 9, 9, 9, 9, 10>>), 1)
Float_0_3 == BinShift(HexBits(<<1, 3, 3, 3, 3, 3, 3, 3, 3, 3, 3, 3, 3, 3>>), 3)
Float_0_05 == HexBits(<<1, 9, 9, 9, 9, 9, 9, 9, 9, 9, 9, 9, 9, 10>>)

\* complexity_score after the first n rows of the indicator table
RECURSIVE ScoreAfterIndicators(_, _)
ScoreAfterIndicators(goal_text, n) ==
    IF n = 0 THEN Float_1_0
    ELSE LET before == ScoreAfterIndicators(goal_text, n - 1)
         IN  IF Has(goal_text, complexity_indicators[n][1])
             THEN FloatAdd(before, FloatMulInt(complexity_indicators[n][2], Float_0_1))
             ELSE before

\* complexity_score after the first n conjunctions
RECURSIVE ScoreAfterConjunctions(_, _)
ScoreAfterConjunctions(goal_text, n) ==
    IF n = 0 THEN ScoreAfterIndicators(goal_text, Len(complexity_indicators))
    ELSE FloatAdd(ScoreAfterConjunctions(goal_text, n - 1),
                  FloatMulInt(Count(goal_text, conjunctions[n]), Float_0_3))

complexity_score(goal_text) ==
    LET counted    == ScoreAfterConjunctions(goal_text, Len(conjunctions))
        word_count == WordCount(goal_text)
    IN  IF word_count > 20
        THEN FloatAdd(counted, FloatMulInt(word_count - 20, Float_0_05))
        ELSE counted

base_steps == 20

_calculate_adaptive_steps_unclamped(goal_text) ==
    FloatToInt(FloatMulInt(base_steps, complexity_score(goal_text)))

_calculate_adaptive_steps(goal_text) ==
    LET adaptive == FloatToInt(FloatMulInt(base_steps, complexity_score(goal_text)))
    IN  Max(20, Min(adaptive, 200))

\* ---- _get_ollama_response
\* What requests.post and the reading of the body deliver.  kind is "refused"
\* (no connection), "dropped" (connection lost while the body is read) or
\* "response"; a line of the body is its text (raw), what json.loads makes of it
\* (json: "object", "other", "invalid") and the "response" and "token" fields
\* of the object (None when the object has no such string field); decode_error
\* is the exception class Response.json() raises in the installed requests.
\* a line of a body that carries no "response" and no "token" field
BodyLine(raw, json) == [raw |-> raw, json |-> json, response |-> None, token |-> None]

\* the line whose object carries the text m in the field the client reads
Carrier(m) == [raw |-> <<"<json>">>, json |-> "object", response |-> m, token |-> m]

StrLit(text) == <<QUOTE>> \o text \o <<QUOTE>>
Member(key, value) == StrLit(T(key)) \o <<COLON, SP>> \o value

\* json.dumps({"error": kind, "details": str(e)})
ErrorEnvelope(kind) ==
    <<LB>> \o Member("error", StrLit(T(kind))) \o <<COMMA, SP>>
           \o Member("details", StrLit(<<"request", SP, "failed">>)) \o <<RB>>

\* the streaming loop over response.iter_lines()
RECURSIVE StreamText(_, _)
StreamText(lines, n) ==
    IF n = 0 THEN [raised |-> FALSE, text |-> <<>>]
    ELSE LET before == StreamText(lines, n - 1)
             line   == lines[n]
             token  == IF line.json = "object" /\ line.token # None
                       THEN line.token ELSE line.raw
         IN  IF before.raised THEN before
             ELSE IF line.raw = <<>> THEN before
             ELSE IF line.json = "other" THEN [raised |-> TRUE, text |-> <<>>]
             ELSE [raised |-> FALSE, text |-> before.text \o token]

_get_ollama_response(streaming, http) ==
    IF http.kind = "refused"
    THEN [raised |-> FALSE, text |-> ErrorEnvelope("RequestException")]
    ELSE IF streaming
    THEN IF http.kind = "dropped" THEN [raised |-> TRUE, text |-> <<>>]
         ELSE StreamText(http.lines, Len(http.lines))
    ELSE IF http.kind = "dropped" \/ http.status >= 400
    THEN [raised |-> FALSE, text |-> ErrorEnvelope("RequestException")]
    ELSE IF Len(http.lines) # 1 \/ http.lines[1].json = "invalid"
    THEN [raised |-> FALSE, text |-> ErrorEnvelope(http.decode_error)]
    ELSE IF http.lines[1].json = "other" THEN [raised |-> TRUE, text |-> <<>>]
    ELSE [raised |-> FALSE,
          text |-> IF http.lines[1].response = None THEN <<>>
                   ELSE http.lines[1].response]

\* a text is the error envelope {error: kind, details: string}
IsErrorEnvelope(text) ==
    LET v == JsonLoads(text) IN
    /\ v.ok
    /\ Kind(v.ents, <<T("error")>>) = "str"
    /\ Kind(v.ents, <<T("details")>>) = "str"

\* ---- _invoke_tool_with_consent
\* a gate list that forgets delete_file
write_operations_without_delete ==
    {T("execute_shell_command"), T("modify_file"), T("move_file")}

write_operations ==
    {T("execute_shell_command"), T("modify_file"), T("delete_file"), T("move_file")}

dangerous_patterns ==
    {<<"rm", SP, DASH, "rf">>, <<"sudo">>, <<"chmod", SP, "777">>, <<"mkfs">>,
     <<"dd", SP, "if", "=">>, <<">", SP, SLASH, "dev", SLASH>>}

\* str.lower() on the atoms a command is written with
LowerAtom(a) ==
    CASE a = "RM" -> "rm" [] a = "RF" -> "rf" [] a = "SUDO" -> "sudo" [] OTHER -> a

Lower(text) == [i \in 1..Len(text) |-> LowerAtom(text[i])]

\* pattern in text
Contains(text, pattern) ==
    \E i \in 1..(Len(text) - Len(pattern) + 1) :
        SubSeq(text, i, i + Len(pattern) - 1) = pattern

\* a denylist match on the command as written, not lower-cased
is_dangerous_case_sensitive(cmd) == \E pattern \in dangerous_patterns : Contains(cmd, pattern)

is_dangerous(cmd) == \E pattern \in dangerous_patterns : Contains(Lower(cmd), pattern)

\* the parameters of the registered functions: <<all, required>>
Signature(tool_name) ==
    CASE tool_name = T("delete_file") -> <<{T("file_path")}, {T("file_path")}>>
      [] tool_name = T("move_file") ->
            <<{T("source"), T("destination")}, {T("source"), T("destination")}>>
      [] tool_name = T("create_file") -> <<{T("file_path"), T("content")}, {T("file_path")}>>
      [] tool_name = T("list_directory") -> <<{T("directory_path")}, {}>>
      [] OTHER -> <<{}, {}>>

\* func(**args) binds: every required parameter is given and no other keyword
Binds(tool_name, a) ==
    /\ Keys(a) \subseteq Signature(tool_name)[1]
    /\ Signature(tool_name)[2] \subseteq Keys(a)

AllStrings(a) == \A e \in a : Len(e[1]) = 1 => e[2] = "str"

RESULT_OK == <<"Successfully", SP, "completed">>
RESULT_ERROR == <<"Error", COLON, SP, "failed">>
RESULT_CANCELLED == <<"Operation", SP, "cancelled", SP, DASH, SP, "insufficient", SP, "permissions">>
RESULT_SKIPPED == <<LK, "skipped", SP, DASH, SP, "dangerous", SP, "command", RK>>
UnknownTool(tool_name) == <<"Unknown", SP, "tool", COLON, SP>> \o tool_name
ErrorCalling(tool_name) == <<"Error", SP, "calling", SP>> \o tool_name

\* What a tool body returns: every body catches its own exceptions and answers
\* with a text; body_ok says whether the file system or the shell let it succeed.
Body(well_formed, body_ok) == IF well_formed /\ body_ok THEN RESULT_OK ELSE RESULT_ERROR

\* a call that leaves the session without consent
Call_forgetting(raised, result, body, consent, asked_consent, asked_danger) ==
    [raised |-> raised, result |-> result, body |-> body, consent |-> FALSE,
     asked_consent |-> asked_consent, asked_danger |-> asked_danger]

Call(raised, result, body, consent, asked_consent, asked_danger) ==
    [raised |-> raised, result |-> result, body |-> body, consent |-> consent,
     asked_consent |-> asked_consent, asked_danger |-> asked_danger]

\* consent, nc, vb: session_consent_given, no_confirm, verbose at the call.
\* consent_reply, danger_reply: the operator's answers to Confirm.ask.
_invoke_tool_with_consent(tool_name, a, consent, nc, vb, consent_reply, danger_reply, body_ok) ==
    LET ask      == tool_name \in write_operations /\ ~consent /\ ~nc
        granted  == consent \/ (ask /\ consent_reply)
        cmd_kind == GetKind(a, T("command"))
        cmd      == GetText(a, T("command"))
        path     == GetText(a, T("file_path"))
        diff     == vb \/ ~granted
    IN  IF tool_name \notin TOOLS
        THEN Call(FALSE, UnknownTool(tool_name), FALSE, consent, FALSE, FALSE)
        ELSE IF ask /\ ~consent_reply
        THEN Call(FALSE, RESULT_CANCELLED, FALSE, consent, TRUE, FALSE)
        ELSE IF tool_name = T("execute_shell_command")
        THEN IF cmd_kind \notin {"absent", "str"}
             THEN Call(TRUE, <<>>, FALSE, granted, ask, FALSE)
             ELSE IF is_dangerous(cmd) /\ ~nc /\ ~danger_reply
             THEN Call(FALSE, RESULT_SKIPPED, FALSE, granted, ask, TRUE)
             ELSE Call(FALSE, IF cmd = <<>> THEN <<>> ELSE Body(TRUE, body_ok), TRUE,
                       granted, ask, is_dangerous(cmd) /\ ~nc)
        ELSE IF tool_name = T("modify_file")
        THEN IF diff /\ (GetKind(a, T("new_content")) \notin {"absent", "str"}
                         \/ GetKind(a, T("file_path")) \notin {"absent", "str"})
             THEN Call(TRUE, <<>>, FALSE, granted, ask, FALSE)
             ELSE Call(FALSE, Body(path # <<>> /\ AllStrings(a), body_ok), TRUE,
                       granted, ask, FALSE)
        ELSE IF tool_name \in {T("delete_file"), T("move_file")}
        THEN IF ~Binds(tool_name, a)
             THEN Call(TRUE, <<>>, FALSE, granted, ask, FALSE)
             ELSE Call(FALSE, Body(AllStrings(a), body_ok), TRUE, granted, ask, FALSE)
        ELSE IF ~Binds(tool_name, a)
             THEN Call(FALSE, ErrorCalling(tool_name), FALSE, granted, ask, FALSE)
             ELSE Call(FALSE, Body(AllStrings(a), body_ok), TRUE, granted, ask, FALSE)

\* ---- self-test
_should_self_test(k, ceiling) == (k % 10 = 0) \/ (10 * k >= 8 * ceiling)

\* successful actions and distinct action names of the history
Successful(hist) == Cardinality({i \in 1..Len(hist) : ~HasError(hist[i].result)})
UniqueActions(hist) == Cardinality({hist[i].action : i \in 1..Len(hist)})

\* _evaluate_progress in tenths of the history length:
\*   min(successful / total + min(unique * 0.1, 0.3), 1.0) * 10 * total
Progress10(hist) ==
    IF hist = <<>> THEN 0
    ELSE Min(10 * Successful(hist) + Min(UniqueActions(hist), 3) * Len(hist),
             10 * Len(hist))

\* progress_score < 0.3, progress_score > 0.5
ProgressBelow03(hist) == IF hist = <<>> THEN TRUE ELSE Progress10(hist) < 3 * Len(hist)
ProgressAbove05(hist) == IF hist = <<>> THEN FALSE ELSE Progress10(hist) > 5 * Len(hist)

\* _iterate_and_improve returns False
LowProgress(hist) == ProgressBelow03(hist) /\ Len(hist) > 5

\* ---- what the model service and the operator can say
MaxRuns == 2
MaxStepsArg == 2
RichCalls == 1
FinishCalls == 1
MaxClarifications == 1

THOUGHT == <<"think">>

ObjText(members) == <<LB>> \o members \o <<RB>>
ActionText(tool_name, args_text) ==
    ObjText(Member("thought", StrLit(THOUGHT)) \o <<COMMA, SP>>
            \o Member("tool", StrLit(tool_name)) \o <<COMMA, SP>>
            \o Member("args", args_text))

Str1(k, v) == ObjText(Member(k, StrLit(v)))
Str2(k1, v1, k2, v2) ==
    ObjText(Member(k1, StrLit(v1)) \o <<COMMA, SP>> \o Member(k2, StrLit(v2)))

\* an object whose member nests one array more than the decoder can enter
RECURSIVE Nest(_)
Nest(n) == IF n = 0 THEN <<>> ELSE <<LK>> \o Nest(n - 1) \o <<RK>>
DeepText == ObjText(Member("a", Nest(StackDepth)))

FinishText == ActionText(FINISH, Str1("reason", <<"done">>))
GarbageText == <<"I", SP, "cannot", SP, "answer", BANG>>

\* the texts a model can answer with in the first RichCalls calls
RichTexts ==
    {FinishText, GarbageText, <<>>, DeepText,
     ActionText(NO_OP, Str1("reason", <<"unclear">>)),
     ActionText(T("create_file"), Str2("file_path", <<"a">>, "content", <<"print">>)),
     ActionText(T("create_file"), ObjText(<<>>)),
     ActionText(T("delete_file"), Str1("file_path", <<"a">>)),
     ActionText(T("delete_file"), ObjText(<<>>)),
     ActionText(T("delete_file"), Str1("path", <<"a">>)),
     ActionText(T("delete_file"), Str2("file_path", <<"a">>, "force", <<"yes">>)),
     ActionText(T("move_file"), Str2("source", <<"a">>, "destination", <<"b">>)),
     ActionText(T("move_file"), Str1("source", <<"a">>)),
     ActionText(T("modify_file"), Str2("file_path", <<"a">>, "new_content", <<"print">>)),
     ActionText(T("modify_file"), ObjText(Member("file_path", StrLit(<<"a">>)) \o <<COMMA, SP>>
                                           \o Member("new_content", <<"1">>))),
     ActionText(T("modify_file"), ObjText(<<>>)),
     ActionText(T("execute_shell_command"), Str1("command", <<"ls">>)),
     ActionText(T("execute_shell_command"), Str1("command", <<"sudo", SP, "ls">>)),
     ActionText(T("execute_shell_command"), Str1("command", <<"RM", SP, DASH, "RF", SP, SLASH>>)),
     ActionText(T("execute_shell_command"), ObjText(Member("command", <<"1">>))),
     ActionText(T("execute_shell_command"), ObjText(<<>>)),
     ActionText(T("frobnicate"), ObjText(<<>>)),
     ActionText(T("list_dir"), ObjText(<<>>)),
     ActionText(T("noop"), Str1("reason", <<"unclear">>)),
     ActionText(T("remove_file"), Str2("source", <<"a">>, "destination", <<"b">>)),
     ActionText(<<>>, ObjText(<<>>))}

\* the texts it answers with in the next FinishCalls calls, and from then on
NextTexts == {FinishText, GarbageText}
LateTexts == {GarbageText}

Delivered(m) ==
    [kind |-> "response", status |-> 200, lines |-> <<Carrier(m)>>,
     decode_error |-> "RequestException"]

\* the error body of the service, and a failed response whose body is an action
ServiceErrorText == ObjText(Member("error", StrLit(<<"model", SP, "not", SP, "found">>)))
Failures ==
    {[kind |-> "refused", status |-> 0, lines |-> <<>>, decode_error |-> "RequestException"],
     [kind |-> "dropped", status |-> 200, lines |-> <<>>, decode_error |-> "RequestException"],
     [kind |-> "response", status |-> 500, lines |-> <<BodyLine(ServiceErrorText, "object")>>,
      decode_error |-> "RequestException"],
     [kind |-> "response", status |-> 500,
      lines |-> <<BodyLine(ActionText(T("delete_file"), Str1("file_path", <<"a">>)), "object")>>,
      decode_error |-> "RequestException"],
     [kind |-> "response", status |-> 200, lines |-> <<BodyLine(GarbageText, "invalid")>>,
      decode_error |-> "RequestException"],
     [kind |-> "response", status |-> 200, lines |-> <<BodyLine(GarbageText, "invalid")>>,
      decode_error |-> "JSONDecodeError"],
     [kind |-> "response", status |-> 200, lines |-> <<BodyLine(<<"1">>, "other")>>,
      decode_error |-> "RequestException"]}

RichOutcomes == {Delivered(m) : m \in RichTexts} \cup Failures
NextOutcomes == {Delivered(m) : m \in NextTexts}
LateOutcomes == {Delivered(m) : m \in LateTexts}

\* every text the client can hand to parse_response, parsed once
ResponseTexts ==
    {_get_ollama_response(st, h).text :
        st \in BOOLEAN, h \in RichOutcomes \cup NextOutcomes \cup LateOutcomes}

Parsed == [text \in ResponseTexts |-> parse_response(text)]

\* every tool name a parsed response can carry, corrected once
AttemptedTools ==
    {Scalar(Parsed[text].parsed, <<KeyTool>>) :
        text \in {x \in ResponseTexts : ~Parsed[x].none}}

Correction == [name \in AttemptedTools |-> suggest_tool_correction(name, available_tools)]

Goals == {<<"fix", SP, "bug">>, <<"Show", SP, "memory">>}
Clarifications == {<<"list", SP, "files">>}

\* direct calls of Agent._execute_tool, outside a run
DirectCalls ==
    {<<T("delete_file"), Dict1("file_path", <<"a">>)>>,
     <<T("create_file"), Dict1("file_path", <<"a">>)>>}

NoAction ==
    [attempted |-> <<>>, tool |-> <<>>, args |-> {}, recovered |-> FALSE, raised |-> FALSE]

\* ---- memory entries (store_memory): category, success flag, the goal and the
\* reason or tool name of the stored content
execution_entry(goal_text) ==
    [category |-> "execution", success |-> TRUE, goal |-> goal_text, note |-> <<>>]

\* a finish entry stored without the success flag
goal_accomplished_entry_unflagged(goal_text, reason) ==
    [category |-> "goal_accomplished", success |-> FALSE, goal |-> goal_text, note |-> reason]

goal_accomplished_entry(goal_text, reason) ==
    [category |-> "goal_accomplished", success |-> TRUE, goal |-> goal_text, note |-> reason]

\* a no_op entry stored with the default success flag
no_op_entry_flagged(goal_text, reason) ==
    [category |-> "no_op", success |-> TRUE, goal |-> goal_text, note |-> reason]

no_op_entry(goal_text, reason) ==
    [category |-> "no_op", success |-> FALSE, goal |-> goal_text, note |-> reason]

tool_usage_entry(tool) ==
    [category |-> "tool_usage", success |-> TRUE, goal |-> <<>>, note |-> tool]

self_test_entry(success) ==
    [category |-> "self_test", success |-> success, goal |-> <<>>, note |-> <<>>]

\* the database after store_memory: every call inserts a row of its own (the id
\* hashes the time of the call), so rows of equal content are counted
Stored(rows, entry) == rows (+) SetToBag({entry})

\* ---- the agent
VARIABLES
    prompt_engine,           \* self.prompt_engine: parse_response on the texts of the model
    response_validator,      \* self.response_validator: suggest_tool_correction on its names
    no_confirm, adaptive_steps, stream, verbose,   \* constructor flags
    max_steps,               \* self.max_steps
    session_consent_given,   \* self.session_consent_given
    history,                 \* self.history
    self_goal,               \* self.goal
    memory,                  \* the rows of the memory database: a bag of entries
    pc,                      \* "idle": no run in progress, "loop": inside the for loop
    goal,                    \* the parameter goal of the run
    step,                    \* the loop variable
    outcome,                 \* how the last run ended
    runs, clarifications, rich_calls,   \* counters the bounds are stated on
    model_calls,             \* calls of _get_ollama_response in this run
    dispatches,              \* calls of _execute_tool in this run
    response,                \* what the last call of the client did
    prompt,                  \* the goal text the last prompt was built from, and self.goal then
    decided,                 \* the last result of the tool validation
    invoked,                 \* the last call of _invoke_tool_with_consent
    tested,                  \* the last call of _iterate_and_improve in this run
    raw, sent,               \* a raw model answer and the JSON object written into it
    parsed,                  \* what parse_response made of raw
    given, returned,         \* the arguments of a call of a pure method, and its result
    memories,                \* the rows of the table memories
    error_patterns,          \* the rows of the table error_patterns
    now,                     \* the clock datetime.now() reads
    runner,                  \* the fields of the InfiniteRunner
    main,                    \* where the main thread is in start_infinite_mode
    monitor,                 \* where the monitoring thread is
    signalled                \* whether _signal_handler has run, and where the main thread was

vars == <<prompt_engine, response_validator, no_confirm, adaptive_steps, stream, verbose, max_steps, session_consent_given,
          history, self_goal, memory, pc, goal, step, outcome, runs, clarifications,
          rich_calls, model_calls, dispatches, response, prompt, decided, invoked, tested,
          raw, sent, parsed, given, returned, memories, error_patterns, now,
          runner, main, monitor, signalled>>

parsing == <<raw, sent, parsed>>
calling == <<given, returned>>
database == <<memories, error_patterns, now>>
infinite_mode == <<runner, main, monitor, signalled>>
flags == <<prompt_engine, response_validator, no_confirm, adaptive_steps, stream, verbose,
           parsing, calling, database, infinite_mode>>
agent_fields == <<prompt_engine, response_validator, no_confirm, adaptive_steps, stream,
                  verbose, max_steps, session_consent_given, history, self_goal, memory, pc,
                  goal, step, outcome, runs, clarifications, rich_calls, model_calls,
                  dispatches, response, prompt, decided, invoked, tested>>
agent == <<agent_fields, infinite_mode>>
counters == <<runs, clarifications>>

NoPrompt == [built_from |-> <<>>, current_goal |-> <<>>]
NoResponse == [made |-> FALSE, http |-> Delivered(<<>>), raised |-> FALSE, text |-> <<>>]
NotParsed == [none |-> TRUE, parsed |-> {}, raised |-> FALSE, errors |-> <<"not parsed">>]
NotTested == [step |-> 0, asked |-> FALSE, reply |-> FALSE]
NoCall ==
    [via |-> "none", tool |-> <<>>, args |-> {}, consent_before |-> FALSE,
     call |-> Call(FALSE, <<>>, FALSE, FALSE, FALSE, FALSE),
     consent_reply |-> FALSE, danger_reply |-> FALSE]

\* the agent after __init__, before any goal
ConstructedWith(ceiling) ==
    /\ max_steps = ceiling
    /\ session_consent_given = FALSE
    /\ history = <<>>
    /\ self_goal = <<>>
    /\ memory = EmptyBag
    /\ pc = "idle"
    /\ goal = <<>>
    /\ step = 0
    /\ outcome = "none"
    /\ runs = 0 /\ clarifications = 0 /\ rich_calls = 0
    /\ model_calls = 0 /\ dispatches = 0
    /\ response = NoResponse
    /\ prompt = NoPrompt
    /\ decided = NoAction
    /\ invoked = NoCall
    /\ tested = NotTested

Constructed == ConstructedWith(MaxStepsArg)

NotCalled == [method |-> "none"]
NothingParsed == raw = <<>> /\ sent = <<>> /\ parsed = NotParsed
NothingCalled == given = NotCalled /\ returned = NotCalled
NoDatabase == memories = {} /\ error_patterns = {} /\ now = 0

\* an entry of task_queue, and the value of the local task while none is taken
Task(goal_text, priority, type, added_at) ==
    [goal |-> goal_text, priority |-> priority, type |-> type, added_at |-> added_at]
no_task == Task(<<>>, "none", "none", 0)

\* InfiniteRunner.__init__
NotStarted ==
    /\ runner = [running |-> FALSE, start_time |-> None, task_queue |-> <<>>,
                 goals_completed |-> 0, errors_encountered |-> 0, current_task_index |-> 0]
    /\ main = [pc |-> "created", step |-> 0, task |-> no_task]
    /\ monitor = "none"
    /\ signalled = [flag |-> FALSE]

\* an agent that takes no part in what is checked
Bystander ==
    /\ prompt_engine = <<>> /\ response_validator = <<>>
    /\ no_confirm = FALSE /\ adaptive_steps = FALSE /\ stream = FALSE /\ verbose = FALSE
    /\ NotStarted
    /\ Constructed

Init ==
    /\ prompt_engine = [parse_response |-> Parsed]
    /\ response_validator = [suggest_tool_correction |-> Correction]
    /\ no_confirm \in BOOLEAN
    /\ adaptive_steps \in BOOLEAN
    /\ stream \in BOOLEAN
    /\ verbose \in BOOLEAN
    /\ NothingParsed
    /\ NothingCalled
    /\ NoDatabase
    /\ NotStarted
    /\ Constructed

\* the record kept of a call of _invoke_tool_with_consent; an answer of the
\* operator is kept only when the question was asked
Invocation(via, tool, args, call, consent_reply, danger_reply) ==
    [via |-> via, tool |-> tool, args |-> args, consent_before |-> session_consent_given,
     call |-> call,
     consent_reply |-> call.asked_consent /\ consent_reply,
     danger_reply |-> call.asked_danger /\ danger_reply]

\* a session consent that takes every answer for a yes
get_session_consent_deaf(nc, consent, reply) == [granted |-> TRUE, consent |-> consent]

\* Agent.get_session_consent: reply is the operator's answer to the question
get_session_consent(nc, consent, reply) ==
    IF nc \/ consent THEN [granted |-> TRUE, consent |-> consent]
    ELSE [granted |-> reply, consent |-> reply]

\* Agent.execute up to the first iteration: g the goal, reply the operator's
\* answer to the session permission question
Execute(g, reply) ==
    LET ask == ~no_confirm /\ ~session_consent_given
        c   == get_session_consent(no_confirm, session_consent_given, reply)
    IN
    /\ pc = "idle"
    /\ runs < MaxRuns
    /\ ask \/ reply
    /\ runs' = runs + 1
    /\ history' = <<>>
    /\ self_goal' = g
    /\ goal' = g
    /\ model_calls' = 0 /\ dispatches' = 0
    /\ response' = NoResponse /\ prompt' = NoPrompt
    /\ decided' = NoAction /\ invoked' = NoCall /\ tested' = NotTested
    /\ IF ask /\ ~c.granted
       THEN /\ pc' = "idle" /\ outcome' = "declined" /\ step' = 0
            /\ session_consent_given' = c.consent
            /\ UNCHANGED max_steps
       ELSE /\ session_consent_given' = IF ask THEN c.consent ELSE session_consent_given
            /\ max_steps' = IF adaptive_steps THEN _calculate_adaptive_steps(g)
                                              ELSE max_steps
            /\ pc' = "loop" /\ outcome' = "none" /\ step' = 1
    /\ UNCHANGED <<flags, memory, clarifications, rich_calls>>

\* ---- one iteration of the loop of Agent.execute, up to the choice of the tool
UnknownAttempted(tool) == <<"Unknown", SP, "tool", SP, "attempted", COLON, SP>> \o tool

\* The action the loop works on: the parsed response or the recovery action,
\* then the validation of the tool name.  attempted is the name as the model
\* gave it; tool and args are what the rest of the iteration uses.
NextAction(response_text, goal_text, hist) ==
    LET p               == prompt_engine.parse_response[response_text]
        parsed_response == IF p.none
                           THEN suggest_recovery_action(goal_text, hist, p.errors)
                           ELSE p.parsed
        attempted       == Scalar(parsed_response, <<KeyTool>>)
        given_args      == IF Kind(parsed_response, <<KeyArgs>>) = "absent"
                           THEN EmptyDict ELSE Sub(parsed_response, KeyArgs)
        known           == attempted \in Range(available_tools)
        suggested_tool  == IF known THEN attempted
                           ELSE response_validator.suggest_tool_correction[attempted]
        tool            == IF known THEN attempted
                           ELSE IF suggested_tool # None THEN suggested_tool ELSE NO_OP
        \* line 174 reads tool after line 173 has assigned it
        args            == IF ~known /\ suggested_tool = None
                           THEN Dict1("reason", UnknownAttempted(tool))
                           ELSE given_args
    IN  [attempted |-> attempted, tool |-> tool, args |-> args, recovered |-> p.none,
         raised |-> p.raised]

\* what the service can deliver to the next call, and what the file system and
\* the operator can answer during it
Outcomes ==
    IF rich_calls < RichCalls THEN RichOutcomes
    ELSE IF rich_calls < RichCalls + FinishCalls THEN NextOutcomes
    ELSE LateOutcomes
Answers == IF rich_calls < RichCalls THEN BOOLEAN ELSE {TRUE}
Addenda == IF clarifications < MaxClarifications THEN Clarifications \cup {<<>>} ELSE {<<>>}

InLoop == pc = "loop" /\ step <= max_steps

\* the part every iteration starts with: the prompt and the model call, which
\* delivers h and makes the client return or raise r
Asked(h, r) ==
    /\ InLoop
    /\ prompt' = [built_from |-> goal, current_goal |-> self_goal]
    /\ response' = [made |-> TRUE, http |-> h, raised |-> r.raised, text |-> r.text]
    /\ model_calls' = model_calls + 1
    /\ rich_calls' = IF rich_calls < RichCalls + FinishCalls THEN rich_calls + 1
                                                              ELSE rich_calls

Returned(how) == pc' = "idle" /\ outcome' = how /\ step' = step

\* an iteration in which the client raises
ClientRaises(h, r) ==
    /\ Asked(h, r)
    /\ r.raised
    /\ Returned("raised")
    /\ UNCHANGED <<flags, counters, max_steps, session_consent_given, history, self_goal,
                   memory, goal, dispatches, decided, invoked, tested>>

\* an iteration in which parse_response raises, after the execution entry
ParseRaises(h, r, a) ==
    /\ Asked(h, r)
    /\ ~r.raised
    /\ a.raised
    /\ memory' = Stored(memory, execution_entry(goal))
    /\ Returned("raised")
    /\ UNCHANGED <<flags, counters, max_steps, session_consent_given, history, self_goal,
                   goal, dispatches, decided, invoked, tested>>

\* an iteration that ends in the finish branch; a is the action it works on
Finish(h, r, a) ==
    /\ Asked(h, r)
    /\ ~r.raised
    /\ ~a.raised
    /\ a.tool = FINISH
    /\ decided' = a
    /\ memory' = Stored(Stored(memory, execution_entry(goal)),
                         goal_accomplished_entry(self_goal, GetText(a.args, T("reason"))))
    /\ Returned("finished")
    /\ UNCHANGED <<flags, counters, max_steps, session_consent_given, history, self_goal,
                   goal, dispatches, invoked, tested>>

\* an iteration that ends in the no_op branch; reply is the operator's answer
NoOp(h, r, a, reply) ==
    /\ Asked(h, r)
    /\ ~r.raised
    /\ ~a.raised
    /\ a.tool = NO_OP
    /\ decided' = a
    /\ memory' = Stored(Stored(memory, execution_entry(goal)),
                         no_op_entry(self_goal, GetText(a.args, T("reason"))))
    /\ IF reply # <<>>
       THEN /\ self_goal' = self_goal \o <<NL>> \o reply
            /\ clarifications' = clarifications + 1
            /\ step' = step + 1
            /\ UNCHANGED <<pc, outcome>>
       ELSE /\ Returned("no_clarification")
            /\ UNCHANGED <<self_goal, clarifications>>
    /\ UNCHANGED <<flags, runs, max_steps, session_consent_given, history, goal,
                   dispatches, invoked, tested>>

\* a history entry that drops the arguments
history_entry_bare(tool, args, result) ==
    [action |-> tool, args |-> EmptyDict, result |-> result]

\* the entry the loop appends to self.history after a dispatch
history_entry(tool, args, result) == [action |-> tool, args |-> args, result |-> result]

\* an iteration that dispatches a tool: consent_reply, danger_reply and go_on
\* are the operator's answers, body_ok what the file system or the shell does
Dispatch(h, r, a, consent_reply, danger_reply, body_ok, go_on) ==
    LET c == _invoke_tool_with_consent(a.tool, a.args, session_consent_given, no_confirm,
                                       verbose, consent_reply, danger_reply, body_ok)
        appended == Append(history, history_entry(a.tool, a.args, c.result))
    IN  /\ Asked(h, r)
        /\ ~r.raised
        /\ ~a.raised
        /\ a.tool \notin {FINISH, NO_OP}
        /\ decided' = a
        /\ dispatches' = dispatches + 1
        /\ invoked' = Invocation("execute", a.tool, a.args, c, consent_reply, danger_reply)
        /\ session_consent_given' = c.consent
        /\ IF c.raised
           THEN /\ memory' = Stored(memory, execution_entry(goal))
                /\ Returned("raised")
                /\ UNCHANGED <<history, tested>>
           ELSE /\ history' = appended
                /\ IF _should_self_test(step, max_steps)
                   THEN /\ memory' = Stored(Stored(Stored(memory, execution_entry(goal)),
                                                   tool_usage_entry(a.tool)),
                                            self_test_entry(ProgressAbove05(appended)))
                        /\ tested' = [step |-> step, asked |-> LowProgress(appended),
                                      reply |-> LowProgress(appended) /\ go_on]
                   ELSE /\ memory' = Stored(Stored(memory, execution_entry(goal)),
                                            tool_usage_entry(a.tool))
                        /\ UNCHANGED tested
                /\ IF _should_self_test(step, max_steps) /\ LowProgress(appended) /\ ~go_on
                   THEN Returned("stopped")
                   ELSE step' = step + 1 /\ UNCHANGED <<pc, outcome>>
        /\ UNCHANGED <<flags, counters, max_steps, self_goal, goal>>

\* one iteration of the for loop, the service delivering h
Iteration(h) ==
    LET r == _get_ollama_response(stream, h)
        a == NextAction(r.text, goal, history)
    IN  \/ ClientRaises(h, r)
        \/ ParseRaises(h, r, a)
        \/ Finish(h, r, a)
        \/ \E reply \in Addenda : NoOp(h, r, a, reply)
        \/ \E cr, dr, ok, go \in Answers : Dispatch(h, r, a, cr, dr, ok, go)

\* the else branch of the for loop
LoopExhausted ==
    /\ pc = "loop"
    /\ step > max_steps
    /\ Returned("max_steps")
    /\ UNCHANGED <<flags, counters, rich_calls, max_steps, session_consent_given, history,
                   self_goal, memory, goal, model_calls, dispatches, response, prompt,
                   decided, invoked, tested>>

\* Agent._execute_tool called on its own, on an agent that has not run a goal yet
DirectInvoke(tool_name, a, consent_reply, body_ok) ==
    LET c == _invoke_tool_with_consent(tool_name, a, session_consent_given, no_confirm,
                                       verbose, consent_reply, TRUE, body_ok)
    IN  /\ pc = "idle"
        /\ runs = 0
        /\ invoked' = Invocation("direct", tool_name, a, c, consent_reply, TRUE)
        /\ session_consent_given' = c.consent
        /\ UNCHANGED <<flags, counters, rich_calls, max_steps, history, self_goal, memory, pc,
                       goal, step, outcome, model_calls, dispatches, response, prompt,
                       decided, tested>>

Next ==
    \/ \E g \in Goals, reply \in BOOLEAN : Execute(g, reply)
    \/ \E h \in Outcomes : Iteration(h)
    \/ LoopExhausted
    \/ \E d \in DirectCalls, cr, ok \in BOOLEAN : DirectInvoke(d[1], d[2], cr, ok)

Spec == Init /\ [][Next]_vars

\* ---- parse_response on raw answers that hold a well-formed action
\* string values with a comma, a colon or braces among the plain ones
Thoughts == {<<"t">>, <<"t", COMMA, RB>>, <<"a", COLON, SP, "b">>, <<LB, "x", RB>>}
ToolNames == {<<"x">>, FINISH}

\* the args member as written: none, flat, nested more than one level, and
\* string values with a comma, a colon or a brace
ArgsTexts ==
    {<<>>,
     ObjText(<<>>),
     Str1("a", <<"b">>),
     ObjText(Member("a", ObjText(Member("b", <<"1">>)))),
     ObjText(Member("a", ObjText(Member("b", Str1("c", <<"d">>))))),
     Str1("a", <<"p", COMMA, RB>>),
     Str1("k", <<"v", COLON, SP, "w">>)}

ObjectText(thought, tool_name, args_text) ==
    ObjText(Member("thought", StrLit(thought)) \o <<COMMA, SP>>
            \o Member("tool", StrLit(tool_name))
            \o (IF args_text = <<>> THEN <<>>
                ELSE <<COMMA, SP>> \o Member("args", args_text)))

\* the object alone, between prose, and in a fenced block
Wrapped(how, object_text) ==
    CASE how = "bare"   -> object_text
      [] how = "prose"  -> <<"Here", COLON, SP>> \o object_text \o <<SP, "ok">>
      [] how = "fenced" -> <<"Sure", NL, FENCE, "json", NL>> \o object_text \o <<NL, FENCE>>

Wrappers == {"bare", "prose", "fenced"}

\* raw answers that hold no action: empty, blank, prose, JSON that is no
\* object, the client's error envelope, objects without a string thought and
\* tool, and objects nested deeper than the decoder can enter
Unparsable ==
    {<<>>, <<SP>>, <<SP, NL, SP>>, GarbageText,
     <<"1">>, <<LK, "1", RK>>, StrLit(<<"x">>), <<"null">>,
     ErrorEnvelope("RequestException"), ErrorEnvelope("JSONDecodeError"),
     ObjText(<<>>),
     ObjText(Member("thought", <<"1">>) \o <<COMMA, SP>> \o Member("tool", StrLit(<<"x">>))),
     ObjText(Member("thought", StrLit(<<"t">>))),
     Wrapped("prose", ObjText(Member("tool", StrLit(<<"x">>)))),
     Wrapped("fenced", ServiceErrorText),
     DeepText, Wrapped("prose", DeepText), Wrapped("fenced", DeepText)}

ParseInit ==
    /\ \/ \E thought \in Thoughts, tool_name \in ToolNames, args_text \in ArgsTexts,
             how \in Wrappers :
               /\ sent = ObjectText(thought, tool_name, args_text)
               /\ raw = Wrapped(how, sent)
       \/ raw \in Unparsable /\ sent = <<>>
    /\ parsed = NotParsed
    /\ NothingCalled
    /\ NoDatabase
    /\ Bystander

ParseResponse ==
    /\ parsed = NotParsed
    /\ parsed' = parse_response(raw)
    /\ UNCHANGED <<agent, raw, sent, calling, database>>

SpecParse == ParseInit /\ [][ParseResponse]_vars

\* ---- suggest_recovery_action on goals, histories and error lists
MaxHistory == 4

RecoveryGoals ==
    {<<>>, <<"fix", SP, "bug">>, <<"Show", SP, "memory">>, <<"list", SP, "files">>,
     <<"MEMORY", SP, "usage">>, <<"show", SP, "statistics">>, <<"statistics">>,
     <<"unlisted">>}

\* results of earlier calls: a success, two that hold "error" in some case, and
\* the answer to an unregistered name
Results ==
    {RESULT_OK, RESULT_ERROR, <<"no", SP, "errors">>, UnknownTool(T("frobnicate"))}

Entry(result) == [action |-> T("create_file"), args |-> EmptyDict, result |-> result]
Histories == UNION {[1..n -> {Entry(r) : r \in Results}] : n \in 0..MaxHistory}
ErrorLists == {<<>>, <<"Empty response from model">>}

RecoverInit ==
    /\ \E g \in RecoveryGoals, h \in Histories, e \in ErrorLists :
          given = [method |-> "suggest_recovery_action", goal |-> g, history |-> h,
                   errors |-> e]
    /\ returned = NotCalled
    /\ NothingParsed
    /\ NoDatabase
    /\ Bystander

Recover ==
    /\ given.method = "suggest_recovery_action"
    /\ returned = NotCalled
    /\ returned' = [method |-> given.method,
                    action |-> suggest_recovery_action(given.goal, given.history,
                                                       given.errors)]
    /\ UNCHANGED <<agent, parsing, given, database>>

SpecRecover == RecoverInit /\ [][Recover]_vars

\* ---- _calculate_adaptive_steps on goals
MaxCalls == 2

\* the words with one blank between them
Join(words) ==
    [i \in 1..(2 * Len(words) - 1) |-> IF i % 2 = 1 THEN words[(i + 1) \div 2] ELSE SP]

\* a goal of the given keywords, so many times "and", filled up with a plain
\* word to the given number of words
GoalWith(keywords, ands, words) ==
    LET said == keywords \o [i \in 1..ands |-> "and"]
    IN  Join(said \o [i \in 1..(words - Len(said)) |-> "x"])

KeywordLists ==
    {<<>>, <<"analyze">>, <<"Analyze">>, <<"comprehensive">>, <<"test">>, <<"calling">>,
     <<"test", "test">>, <<"analyze", "then", "test">>, <<"all", "comprehensive", "test">>}
AndCounts == {0, 1, 2, 30}
WordTotals == {0, 21, 23, 200}

StepGoals == {GoalWith(k, a, w) : k \in KeywordLists, a \in AndCounts, w \in WordTotals}

StepsInit ==
    /\ \E g \in StepGoals : given = [method |-> "_calculate_adaptive_steps", goal |-> g]
    /\ returned = [method |-> "_calculate_adaptive_steps", values |-> <<>>]
    /\ NothingParsed
    /\ NoDatabase
    /\ Bystander

CalculateSteps ==
    /\ given.method = "_calculate_adaptive_steps"
    /\ Len(returned.values) < MaxCalls
    /\ returned' = [returned EXCEPT
                      !.values = Append(@, _calculate_adaptive_steps(given.goal))]
    /\ UNCHANGED <<agent, parsing, given, database>>

SpecSteps == StepsInit /\ [][CalculateSteps]_vars

\* ---- memory.py: the tables memories and error_patterns
UNDERSCORE == "_"

\* defaults of store_memory and retrieve_memories; an importance is counted in
\* tenths
importance_default == 5
min_importance_default == 0
limit_default == 100

\* INSERT OR REPLACE: the row takes the place of the row of the same id
Replaced(table, row) == {r \in table : r.id # row.id} \cup {row}

\* the text the id of a memory is the md5 of
memory_id(category, content, timestamp) ==
    category \o <<UNDERSCORE>> \o content \o <<UNDERSCORE, timestamp>>

store_memory(table, category, content, importance, tags, success, timestamp) ==
    Replaced(table, [id |-> memory_id(category, content, timestamp),
                     timestamp |-> timestamp, category |-> category, content |-> content,
                     importance |-> importance,
                     tags |-> IF tags = None THEN <<>> ELSE tags,
                     success |-> success])

\* ORDER BY importance DESC, timestamp DESC
Before(a, b) ==
    \/ a.importance > b.importance
    \/ a.importance = b.importance /\ a.timestamp > b.timestamp

\* the rows the query selects: the WHERE clause, the order and the LIMIT
Selected(table, category, min_importance, limit) ==
    LET matching == {r \in table : /\ r.importance >= min_importance
                                   /\ category \in {None, <<>>} \/ r.category = category}
    IN  {r \in matching : Cardinality({q \in matching : Before(q, r)}) < limit}

\* the ids of the entries retrieve_memories returns, in their order
retrieve_memories(table, category, tags, min_importance, limit) ==
    LET rows == Selected(table, category, min_importance, limit)
        kept == {r \in rows : tags \in {None, <<>>} \/ Range(tags) \cap Range(r.tags) # {}}
        rank == CHOOSE f \in {[r \in kept |-> Cardinality({q \in kept : Before(q, r)})]} : TRUE
    IN  [i \in 1..Cardinality(kept) |-> (CHOOSE r \in kept : rank[r] = i - 1).id]

\* the text the id of an error pattern is the md5 of
error_id(error_type, error_context) == error_type \o <<UNDERSCORE>> \o error_context

learn_from_error(table, error_type, error_context, solution, effectiveness, timestamp) ==
    Replaced(table, [id |-> error_id(error_type, error_context),
                     error_type |-> error_type, error_context |-> error_context,
                     solution |-> IF solution = None THEN <<>> ELSE solution,
                     effectiveness |-> effectiveness, created_at |-> timestamp])

\* ---- store_memory and retrieve_memories on a database that holds rows of
\* earlier sessions
MaxStores == 1

\* n rows of one category and importance, stored before the clock started
Earlier(n, category, importance) ==
    {[id |-> memory_id(category, <<"old">>, 0 - k), timestamp |-> 0 - k,
      category |-> category, content |-> <<"old">>, importance |-> importance,
      tags |-> <<"testing">>, success |-> TRUE] : k \in 1..n}

Categories == {<<"execution">>, <<"test_category">>}
Importances == {importance_default, 8}
TagLists == {None, <<"testing", "validation">>}
Queries == {None, <<>>, <<"testing">>, <<"other">>}

Databases ==
    {Earlier(n, <<"execution">>, i) : n \in {0, limit_default - 1, limit_default},
                                      i \in {3, 9}}

MemoryInit ==
    /\ memories \in Databases
    /\ error_patterns = {}
    /\ now = 0
    /\ given = [method |-> "store_memory", id |-> None]
    /\ returned = NotCalled
    /\ NothingParsed
    /\ Bystander

StoreMemory(category, importance, tags) ==
    /\ given.method = "store_memory"
    /\ now < MaxStores
    /\ now' = now + 1
    /\ memories' = store_memory(memories, category, <<"new">>, importance, tags, TRUE, now')
    /\ given' = [method |-> "store_memory", id |-> memory_id(category, <<"new">>, now'),
                 category |-> category, importance |-> importance,
                 tags |-> IF tags = None THEN <<>> ELSE tags]
    /\ returned' = NotCalled
    /\ UNCHANGED <<agent, parsing, error_patterns>>

\* the query that follows a call of store_memory
RetrieveMemories(category, tags) ==
    /\ given.method = "store_memory"
    /\ given.id # None
    /\ returned = NotCalled
    /\ returned' = [method |-> "retrieve_memories", category |-> category, tags |-> tags,
                    ids |-> retrieve_memories(memories, category, tags,
                                              min_importance_default, limit_default)]
    /\ UNCHANGED <<agent, parsing, given, database>>

MemoryNext ==
    \/ \E c \in Categories, i \in Importances, t \in TagLists : StoreMemory(c, i, t)
    \/ \E c \in Categories \cup {None}, t \in Queries : RetrieveMemories(c, t)

SpecMemory == MemoryInit /\ [][MemoryNext]_vars

\* ---- learn_from_error on pairs of an error type and a context
MaxLessons == 3

ErrorTypes == {<<"file">>, <<"file", UNDERSCORE, "not">>}
ErrorContexts == {<<"found">>, <<"not", UNDERSCORE, "found">>}
Solutions == {None, <<"retry">>}

ErrorsInit ==
    /\ memories = {}
    /\ error_patterns = {}
    /\ now = 0
    /\ given = [method |-> "learn_from_error", calls |-> <<>>]
    /\ returned = NotCalled
    /\ NothingParsed
    /\ Bystander

LearnFromError(error_type, error_context, solution) ==
    /\ given.method = "learn_from_error"
    /\ now < MaxLessons
    /\ now' = now + 1
    /\ error_patterns' = learn_from_error(error_patterns, error_type, error_context,
                                          solution, 0, now')
    /\ given' = [given EXCEPT !.calls = Append(@, [error_type |-> error_type,
                                                  error_context |-> error_context,
                                                  solution |-> solution])]
    /\ UNCHANGED <<agent, parsing, returned, memories>>

ErrorsNext ==
    \E t \in ErrorTypes, c \in ErrorContexts, s \in Solutions : LearnFromError(t, c, s)

SpecErrors == ErrorsInit /\ [][ErrorsNext]_vars

\* ---- infinite_runner.py: start_infinite_mode, the main loop, the signal
\* handler and the monitoring thread
MaxTasks == 2
MaxTaskSteps == 2
MaxErrors == 1

\* cleanup_old_memories(days=7), in ticks of the clock
days == 7

\* json.dumps of the final report: session_stats is self.stats, and the
\* datetime start_infinite_mode puts into it is not serializable
JsonSerializable(stats) == stats.start_time = None

\* DELETE FROM memories WHERE timestamp < cutoff AND importance < 0.3
cleanup_old_memories(table, cutoff) ==
    {r \in table : ~(r.timestamp < cutoff /\ r.importance < 3)}

InitialGoals == {None, <<"fix", SP, "bug">>}
auto_task(index) == <<"automatic", SP, "task", SP, index>>
SessionSummary == <<"session_summary">>

\* the database holds what earlier sessions left in it
RunnerInit ==
    /\ memories \in {{}, Earlier(days + 1, <<"execution">>, 2)}
    /\ error_patterns = {}
    /\ now = 0
    /\ NothingParsed
    /\ NothingCalled
    /\ Bystander

Unrelated == <<agent_fields, parsing, calling>>

\* start_infinite_mode up to the call of _run_initial_tests
StartInfiniteMode(initial_goal) ==
    /\ main.pc = "created"
    /\ runner' = [runner EXCEPT
                    !.running = TRUE,
                    !.start_time = <<"datetime", now>>,
                    !.task_queue = IF initial_goal \in {None, <<>>} THEN @
                                   ELSE Append(@, Task(initial_goal, "high", "user", now))]
    /\ monitor' = "started"
    /\ main' = [pc |-> "tests", step |-> 0, task |-> no_task]
    /\ UNCHANGED <<Unrelated, database, signalled>>

\* _run_initial_tests: the report is stored unless the operator declines to
\* continue after critical failures (the question is asked only below 50%, so
\* not when the tests passed); _main_loop is called next in either case
RunInitialTests(passed, continue) ==
    /\ main.pc = "tests"
    /\ passed => continue
    /\ IF continue
       THEN /\ now' = now + 1
            /\ memories' = store_memory(memories, <<"system_test">>, <<"report">>, 9,
                                        <<"testing", "health_check">>, passed, now')
       ELSE UNCHANGED <<memories, now>>
    /\ main' = [pc |-> "top", step |-> 0, task |-> no_task]
    /\ UNCHANGED <<Unrelated, error_patterns, runner, monitor, signalled>>

\* _signal_handler, run in the main thread between two of its instructions
SignalHandler ==
    /\ main.pc \notin {"created", "returned", "raised"}
    /\ runner' = [runner EXCEPT !.running = FALSE]
    /\ signalled' = IF signalled.flag THEN signalled
                    ELSE [flag |-> TRUE, pc |-> main.pc, step |-> main.step]
    /\ UNCHANGED <<Unrelated, database, main, monitor>>

\* task_queue.pop() instead of pop(0)
Popped_last(queue) ==
    [task |-> queue[Len(queue)], rest |-> SubSeq(queue, 1, Len(queue) - 1)]

\* task = self.task_queue.pop(0)
Popped(queue) == [task |-> Head(queue), rest |-> Tail(queue)]

\* _process_next_task up to the first model call of Agent.execute
BeginTask ==
    /\ main.pc = "top"
    /\ runner.running
    /\ runner.task_queue # <<>>
    /\ runner' = [runner EXCEPT !.task_queue = Popped(@).rest]
    /\ main' = [pc |-> "execute", step |-> 1, task |-> Popped(runner.task_queue).task]
    /\ UNCHANGED <<Unrelated, database, monitor, signalled>>

\* a completion that is not counted
Completed_uncounted(stats) == stats

\* self.stats["goals_completed"] += 1
Completed(stats) == [stats EXCEPT !.goals_completed = @ + 1]

\* the model call or tool invocation in flight inside Agent.execute completes:
\* the for loop of execute goes on to its next step, returns or raises; after
\* the task the completion is stored or the error learned from
ExecuteStep(ends) ==
    /\ main.pc = "execute"
    /\ ends = "raises" => runner.errors_encountered < MaxErrors
    /\ IF ends = "goes on" /\ main.step < MaxTaskSteps
       THEN /\ main' = [main EXCEPT !.step = @ + 1]
            /\ UNCHANGED <<runner, database>>
       ELSE /\ now' = now + 1
            /\ main' = [pc |-> "rest", step |-> 0, task |-> no_task]
            /\ IF ends = "raises"
               THEN /\ runner' = [runner EXCEPT !.errors_encountered = @ + 1]
                    /\ error_patterns' =
                          learn_from_error(error_patterns, <<"task_execution_error">>,
                                           <<"Goal">>, <<"Review">>, 3, now')
                    /\ UNCHANGED memories
               ELSE /\ runner' = Completed(runner)
                    /\ memories' =
                          store_memory(memories, <<"task_completion">>, <<"goal">>, 7,
                                       <<"task", "completion">>, TRUE, now')
                    /\ UNCHANGED error_patterns
    /\ UNCHANGED <<Unrelated, monitor, signalled>>

\* an iteration of the while loop with an empty queue: an automatic task is
\* added when ten minutes have passed
NoTask(ten_minutes) ==
    /\ main.pc = "top"
    /\ runner.running
    /\ runner.task_queue = <<>>
    /\ ten_minutes => runner.current_task_index < MaxTasks
    /\ runner' = IF ten_minutes
                 THEN [runner EXCEPT
                         !.task_queue = Append(@, Task(auto_task(runner.current_task_index),
                                                        "low", "automatic", now)),
                         !.current_task_index = @ + 1]
                 ELSE runner
    /\ main' = [pc |-> "rest", step |-> 0, task |-> no_task]
    /\ UNCHANGED <<Unrelated, database, monitor, signalled>>

\* the rest of an iteration: the periodic self-test when it is due, and the
\* pause; an exception of the self-test is caught and learned from
Rest(test_raises) ==
    /\ main.pc = "rest"
    /\ test_raises => runner.errors_encountered < MaxErrors
    /\ IF test_raises
       THEN /\ now' = now + 1
            /\ runner' = [runner EXCEPT !.errors_encountered = @ + 1]
            /\ error_patterns' = learn_from_error(error_patterns, <<"main_loop_error">>,
                                                  <<"e">>, <<"Continue">>, 5, now')
       ELSE UNCHANGED <<runner, error_patterns, now>>
    /\ main' = [pc |-> "top", step |-> 0, task |-> no_task]
    /\ UNCHANGED <<Unrelated, memories, monitor, signalled>>

\* the while loop ends and _shutdown_gracefully stores the session summary;
\* an exception of store_memory leaves start_infinite_mode
ShutdownGracefully ==
    /\ main.pc = "top"
    /\ ~runner.running
    /\ IF JsonSerializable(runner)
       THEN /\ now' = now + 1
            /\ memories' = store_memory(memories, SessionSummary, <<"final_report">>, 9,
                                        <<"session", "summary", "infinite_mode">>, TRUE, now')
            /\ main' = [pc |-> "returned", step |-> 0, task |-> no_task]
       ELSE /\ main' = [pc |-> "raised", step |-> 0, task |-> no_task]
            /\ UNCHANGED <<memories, now>>
    /\ UNCHANGED <<Unrelated, error_patterns, runner, monitor, signalled>>

\* a monitoring loop that takes a queued task and starts its execution
MonitoringTick_taking_tasks(cleanup) ==
    /\ monitor = "started"
    /\ main.pc \notin {"created", "tests", "returned", "raised"}
    /\ IF runner.running /\ runner.task_queue # <<>>
       THEN /\ runner' = [runner EXCEPT !.task_queue = Tail(@)]
            /\ main' = [pc |-> "execute", step |-> 1, task |-> Head(runner.task_queue)]
            /\ UNCHANGED monitor
       ELSE /\ monitor' = IF runner.running THEN monitor ELSE "exited"
            /\ UNCHANGED <<runner, main>>
    /\ UNCHANGED <<Unrelated, database, signalled>>

\* _monitoring_loop: one test of its while loop and, while running, one tick
MonitoringTick(cleanup) ==
    /\ monitor = "started"
    /\ IF runner.running
       THEN /\ memories' = IF cleanup THEN cleanup_old_memories(memories, now - days)
                                      ELSE memories
            /\ UNCHANGED monitor
       ELSE /\ monitor' = "exited"
            /\ UNCHANGED memories
    /\ UNCHANGED <<Unrelated, error_patterns, now, runner, main, signalled>>

MainThread ==
    \/ \E g \in InitialGoals : StartInfiniteMode(g)
    \/ \E passed, continue \in BOOLEAN : RunInitialTests(passed, continue)
    \/ BeginTask
    \/ \E ends \in {"goes on", "returns", "raises"} : ExecuteStep(ends)
    \/ \E ten_minutes \in BOOLEAN : NoTask(ten_minutes)
    \/ \E test_raises \in BOOLEAN : Rest(test_raises)
    \/ ShutdownGracefully

RunnerNext ==
    \/ MainThread
    \/ SignalHandler
    \/ \E cleanup \in BOOLEAN : MonitoringTick(cleanup)

\* the main thread keeps running: calls return and pauses end; no signal has
\* to arrive
SpecRunner == RunnerInit /\ [][RunnerNext]_vars /\ WF_vars(MainThread)

\* ---- the queue with tasks added through add_task while the runner runs
MaxQueued == 2
Priorities == {"medium", "high"}
AddedGoals == {<<"list", SP, "files">>}

\* add_task, called by the owner of the runner at any time
AddTask(goal_text, priority) ==
    /\ main.pc \notin {"returned", "raised"}
    /\ runner.goals_completed + Len(runner.task_queue)
         + (IF main.pc = "execute" THEN 1 ELSE 0) < MaxQueued
    /\ now' = now + 1
    /\ runner' = [runner EXCEPT
                    !.task_queue = Append(@, Task(goal_text, priority, "user", now'))]
    /\ UNCHANGED <<Unrelated, memories, error_patterns, main, monitor, signalled>>

QueueNext ==
    \/ RunnerNext
    \/ \E g \in AddedGoals, p \in Priorities : AddTask(g, p)

SpecQueue == RunnerInit /\ [][QueueNext]_vars

\* ---- create_enhanced_prompt: the prompt as its lines, each a record of the
\* section it belongs to, what the line is, and what is formatted into it
MaxPromptHistory == 6
recent_actions == 5
result_width == 100

Line(section, line, content) == [section |-> section, line |-> line, content |-> content]

\* str(result)[:100] + "..." for a result of more than 100 characters
Shown(result) ==
    IF Len(result) > result_width
    THEN SubSeq(result, 1, result_width) \o <<".", ".", ".">>
    ELSE result

create_enhanced_prompt(goal_text, hist, tools, context) ==
    LET tools_section ==
            <<Line("tools", "header", <<>>)>>
            \o [i \in 1..Len(tools) |-> Line("tools", "tool", <<i, tools[i]>>)]
        recent_history ==
            IF Len(hist) > recent_actions
            THEN SubSeq(hist, Len(hist) - recent_actions + 1, Len(hist)) ELSE hist
        history_section ==
            <<Line("history", "header", <<>>)>>
            \o (IF hist = <<>>
                THEN <<Line("history", "none", <<>>)>>
                ELSE [i \in 1..Len(recent_history) |->
                        Line("history", "action",
                             <<i, recent_history[i].action, recent_history[i].args,
                               Shown(recent_history[i].result)>>)])
        context_section ==
            IF context \in {None, <<>>} THEN <<>>
            ELSE <<Line("context", "header", <<>>), Line("context", "text", context)>>
    IN  <<Line("preface", "fixed", <<>>), Line("goal", "goal", goal_text)>>
        \o tools_section \o history_section \o context_section
        \o <<Line("format", "fixed", <<>>)>>

\* results of one character each: a short one and one of 101 characters
PromptResults == {<<"o", "k">>, [i \in 1..(result_width + 1) |-> "x"]}
PromptHistories ==
    UNION {[1..n -> {Entry(r) : r \in PromptResults}] : n \in 0..MaxPromptHistory}
Contexts == {None, <<>>, <<"Current", SP, "Working", SP, "Memory", COLON>>}

PromptInit ==
    /\ \E h \in PromptHistories, c \in Contexts :
          given = [method |-> "create_enhanced_prompt", goal |-> <<"fix", SP, "bug">>,
                   history |-> h, context |-> c]
    /\ returned = NotCalled
    /\ NothingParsed
    /\ NoDatabase
    /\ Bystander

CreateEnhancedPrompt ==
    /\ given.method = "create_enhanced_prompt"
    /\ returned = NotCalled
    /\ returned' = [method |-> given.method,
                    prompt |-> create_enhanced_prompt(given.goal, given.history,
                                                      available_tools, given.context)]
    /\ UNCHANGED <<agent, parsing, given, database>>

SpecPrompt == PromptInit /\ [][CreateEnhancedPrompt]_vars

\* ---- runs of a fixed ceiling in which the self-test comes due: the model
\* supplies an action, a no_op, finish or prose at every step, and the file
\* system lets a body succeed only among the first MaxVaried dispatches
MaxVaried == 2
MaxAddenda == 2
TestCeilings == {7, 13}
LongTexts ==
    {ActionText(T("create_file"), Str2("file_path", <<"a">>, "content", <<"print">>)),
     ActionText(NO_OP, Str1("reason", <<"unclear">>)),
     FinishText, GarbageText}

SelfTestInit ==
    /\ prompt_engine = [parse_response |-> Parsed]
    /\ response_validator = [suggest_tool_correction |-> Correction]
    /\ no_confirm = TRUE
    /\ adaptive_steps = FALSE /\ stream = FALSE /\ verbose = FALSE
    /\ NothingParsed
    /\ NothingCalled
    /\ NoDatabase
    /\ NotStarted
    /\ \E ceiling \in TestCeilings : ConstructedWith(ceiling)

LongIteration(h) ==
    LET r == _get_ollama_response(stream, h)
        a == NextAction(r.text, goal, history)
    IN  \/ Finish(h, r, a)
        \/ \E reply \in (IF clarifications < MaxAddenda THEN Clarifications \cup {<<>>}
                                                           ELSE {<<>>}) :
              NoOp(h, r, a, reply)
        \/ \E ok \in (IF Len(history) < MaxVaried THEN BOOLEAN ELSE {FALSE}),
              go \in BOOLEAN : Dispatch(h, r, a, TRUE, TRUE, ok, go)

SelfTestNext ==
    \/ runs = 0 /\ Execute(<<"fix", SP, "bug">>, TRUE)
    \/ \E m \in LongTexts : LongIteration(Delivered(m))
    \/ LoopExhausted

SpecSelfTest == SelfTestInit /\ [][SelfTestNext]_vars

TypeOK ==
    /\ pc \in {"idle", "loop"}
    /\ outcome \in {"none", "declined", "finished", "no_clarification", "max_steps",
                    "stopped", "raised"}

\* ---- the claims
AvailableNames == Range(available_tools)
HasDecided == decided # NoAction
DispatchedByLoop == invoked.via = "execute"

\* C1: a tool name the loop dispatches to the registry is a registered name:
\* an unknown, empty or near-miss name is replaced by a known name or by no_op
\* before dispatch, and no_op and finish are never passed to the registry.
C1_DispatchedToolIsRegistered ==
    /\ HasDecided => decided.tool \in AvailableNames
    /\ DispatchedByLoop =>
          /\ invoked.tool \in TOOLS
          /\ invoked.tool \notin {NO_OP, FINISH}

\* a near-miss name was corrected and the corrected tool dispatched
C1_Witness ==
    /\ DispatchedByLoop
    /\ decided.attempted = T("list_dir")
    /\ invoked.tool = T("list_directory")

\* C2: one call of Agent.execute makes at most ceiling model calls, ceiling
\* being the adaptive estimate of the goal or the max_steps of the operator,
\* and then returns without raising.
Ceiling == IF adaptive_steps THEN _calculate_adaptive_steps(goal) ELSE MaxStepsArg

C2_ReturnsWithinCeiling ==
    /\ model_calls <= Ceiling
    /\ outcome # "raised"

\* C3: a mutating tool runs only with session consent or under no_confirm, and
\* a call made without consent that the operator refuses answers with the
\* cancellation text and does not run the tool.
MutatingTools ==
    {T("modify_file"), T("delete_file"), T("move_file"), T("execute_shell_command")}

C3_MutationNeedsConsent ==
    (invoked.via # "none" /\ invoked.tool \in MutatingTools) =>
        /\ invoked.call.body => (no_confirm \/ invoked.call.consent)
        /\ (~invoked.consent_before /\ ~no_confirm /\ ~invoked.consent_reply) =>
              /\ invoked.call.result = RESULT_CANCELLED
              /\ ~invoked.call.body
              /\ ~invoked.call.raised

\* delete_file called without consent, the operator refusing
C3_Witness ==
    /\ invoked.via = "direct"
    /\ invoked.tool = T("delete_file")
    /\ ~invoked.consent_before /\ ~no_confirm
    /\ invoked.call.asked_consent /\ ~invoked.consent_reply
    /\ invoked.call.result = RESULT_CANCELLED

\* C4: a shell command on the denylist runs only after the extra confirmation
\* was answered yes, also when session consent was given; answered no, the
\* shell is not run and the skipped text is the result; only no_confirm
\* bypasses the question.
DangerousCommands == {<<"sudo", SP, "ls">>, <<"RM", SP, DASH, "RF", SP, SLASH>>}

C4_DangerousNeedsConfirmation ==
    (/\ invoked.via # "none"
     /\ invoked.tool = T("execute_shell_command")
     /\ GetKind(invoked.args, T("command")) = "str"
     /\ GetText(invoked.args, T("command")) \in DangerousCommands
     /\ invoked.call.result # RESULT_CANCELLED) =>
        /\ invoked.call.asked_danger = ~no_confirm
        /\ invoked.call.body = (no_confirm \/ invoked.danger_reply)
        /\ (invoked.call.asked_danger /\ ~invoked.danger_reply) =>
              invoked.call.result = RESULT_SKIPPED

\* session consent given, the upper-case force-delete refused at the question
C4_Witness ==
    /\ DispatchedByLoop
    /\ invoked.consent_before
    /\ GetText(invoked.args, T("command")) = <<"RM", SP, DASH, "RF", SP, SLASH>>
    /\ invoked.call.asked_danger /\ ~invoked.danger_reply
    /\ invoked.call.result = RESULT_SKIPPED
    /\ ~invoked.call.body

\* C5: after a clarification the addendum is part of the goal text and the
\* prompt of the next step (and its recovery and memory lookups) is built from
\* the goal text with the addendum; an empty answer ends the run.
C5_PromptUsesClarifiedGoal ==
    /\ prompt.built_from = prompt.current_goal
    /\ outcome = "no_clarification" => pc = "idle"

\* a step was asked after a clarification
C5_Witness ==
    /\ clarifications > 0
    /\ prompt.current_goal = <<"fix", SP, "bug", NL, "list", SP, "files">>

\* C6: when an unknown tool name cannot be corrected and the action becomes
\* no_op, the reason stored with the no_op names the tool the model attempted.
Uncorrectable ==
    /\ HasDecided
    /\ decided.attempted \notin AvailableNames
    /\ decided.tool = NO_OP

C6_ReasonNamesAttemptedTool ==
    Uncorrectable => Contains(GetText(decided.args, T("reason")), decided.attempted)

C6_Witness == Uncorrectable /\ decided.attempted = T("frobnicate")

\* C7: every action the loop dispatches yields a text result that is stored
\* in the history, whatever its args; no exception leaves Agent.execute.
C7_DispatchYieldsStoredResult ==
    DispatchedByLoop =>
        /\ ~invoked.call.raised
        /\ history # <<>>
        /\ history[Len(history)] =
              [action |-> invoked.tool, args |-> invoked.args, result |-> invoked.call.result]

\* delete_file dispatched without its file_path
C7_Witness ==
    /\ DispatchedByLoop
    /\ invoked.tool = T("delete_file")
    /\ invoked.args = EmptyDict
    /\ outcome = "raised"

\* C8: streaming or not, a connection failure or a non-2xx response makes the
\* client return the error envelope {error, details}; the client never raises
\* and never returns the body of a failed response as model text.
TransportFailed ==
    /\ response.made
    /\ \/ response.http.kind \in {"refused", "dropped"}
       \/ response.http.status < 200
       \/ response.http.status >= 300

C8_FailureGivesEnvelope ==
    TransportFailed => ~response.raised /\ IsErrorEnvelope(response.text)

\* a 500 whose body is returned to the loop as the model's answer
C8_Witness ==
    /\ TransportFailed
    /\ stream
    /\ response.http.status = 500
    /\ response.text = ActionText(T("delete_file"), Str1("file_path", <<"a">>))
    /\ DispatchedByLoop

\* C9: finish ends the run at once: one goal_accomplished entry with the
\* success flag is stored, no tool is invoked and nothing is appended to the
\* history, so a run that returns leaves as many history entries as tools
\* were dispatched.
RECURSIVE CopiesOf(_, _)
CopiesOf(S, rows) ==
    IF S = {} THEN 0
    ELSE LET e == CHOOSE x \in S : TRUE
         IN  CopiesIn(e, rows) + CopiesOf(S \ {e}, rows)

SuccessEntries(rows) ==
    CopiesOf({e \in BagToSet(rows) : e.category = "goal_accomplished" /\ e.success}, rows)

FinishStep == pc = "loop" /\ outcome' = "finished"

ArgsOf(object) ==
    IF Kind(object, <<KeyArgs>>) = "absent" THEN EmptyDict ELSE Sub(object, KeyArgs)

WasParsed == parsed # NotParsed
Written == JsonLoads(sent)

C10_ParseRoundTrip ==
    (WasParsed /\ Written.ok /\ _validate_parsed_response(Written.ents)) =>
        /\ ~parsed.none
        /\ Scalar(parsed.parsed, <<KeyThought>>) = Scalar(Written.ents, <<KeyThought>>)
        /\ Scalar(parsed.parsed, <<KeyTool>>) = Scalar(Written.ents, <<KeyTool>>)
        /\ ArgsOf(parsed.parsed) = ArgsOf(Written.ents)

\* a thought that ends in a comma and a brace comes back without the comma
C10_Witness ==
    /\ WasParsed
    /\ Written.ok
    /\ Scalar(Written.ents, <<KeyThought>>) = <<"t", COMMA, RB>>
    /\ ~parsed.none
    /\ Scalar(parsed.parsed, <<KeyThought>>) = <<"t", RB>>

\* a plain action between prose comes back as written
C10_PlainRoundTrip ==
    /\ WasParsed
    /\ raw = Wrapped("prose", ObjectText(<<"t">>, <<"x">>, Str1("a", <<"b">>)))
    /\ ~parsed.none
    /\ parsed.parsed = Written.ents

\* C11: of a raw string with no action object in it and no thought/tool pair
\* the regular expressions could recover, parse_response returns no action
\* and a non-empty error list, and it does not raise.
NoPairToRecover ==
    ~(SearchKeyString(raw, "thought").found /\ SearchKeyString(raw, "tool").found)

C11_NoActionGivesErrors ==
    (WasParsed /\ raw \in Unparsable /\ NoPairToRecover) =>
        /\ ~parsed.raised
        /\ parsed.none
        /\ parsed.errors # <<>>

\* the error envelope of the client comes back as no action with its errors
C11_Witness ==
    /\ WasParsed
    /\ raw = ErrorEnvelope("RequestException")
    /\ NoPairToRecover
    /\ parsed.none /\ ~parsed.raised
    /\ Len(parsed.errors) = 3

\* C12: when the results of the last three history entries each hold the
\* substring "error", suggest_recovery_action returns a no_op action, whatever
\* the goal says.
Recovered == returned # NotCalled /\ returned.method = "suggest_recovery_action"
HoldsError(result) == \E i \in 1..Len(result) : result[i] \in {"Error", "error", "errors"}
LastThreeFailed ==
    /\ Len(given.history) >= 3
    /\ \A i \in (Len(given.history) - 2)..Len(given.history) :
          HoldsError(given.history[i].result)

C12_ThreeErrorsGiveNoOp ==
    (Recovered /\ LastThreeFailed) => Scalar(returned.action, <<KeyTool>>) = NO_OP

\* three failures behind a success, the goal asking for memory: no_op all the same
C12_Witness ==
    /\ Recovered
    /\ LastThreeFailed
    /\ Len(given.history) = 4
    /\ given.goal = <<"Show", SP, "memory">>
    /\ Scalar(returned.action, <<KeyTool>>) = NO_OP

\* C13: suggest_recovery_action answers by a fixed ladder: empty history gives
\* list_directory on "."; else two or more failures (a result holding "error"
\* or "unknown tool") among the last three entries give no_op; else a goal
\* holding memory or statistics gives get_memory_statistics; else a goal holding
\* list or show gives list_directory; else get_current_directory.  The tool it
\* returns is a registered or reserved name.
FailuresAmongLastThree ==
    Cardinality({i \in 1..Len(given.history) :
                    /\ i > Len(given.history) - 3
                    /\ \/ HoldsError(given.history[i].result)
                       \/ HasUnknownTool(given.history[i].result)})

GoalHolds(words) == \E i \in 1..Len(given.goal) : given.goal[i] \in words

LadderTool ==
    IF given.history = <<>> THEN T("list_directory")
    ELSE IF FailuresAmongLastThree >= 2 THEN NO_OP
    ELSE IF GoalHolds({"memory", "MEMORY", "statistics"}) THEN T("get_memory_statistics")
    ELSE IF GoalHolds({"list", "unlisted", "show", "Show"}) THEN T("list_directory")
    ELSE T("get_current_directory")

C13_RecoveryLadder ==
    Recovered =>
        /\ Scalar(returned.action, <<KeyTool>>) = LadderTool
        /\ Scalar(returned.action, <<KeyTool>>) \in Range(available_tools)
        /\ _validate_parsed_response(returned.action)
        /\ (given.history = <<>> =>
               Sub(returned.action, KeyArgs) = Dict1("directory_path", <<".">>))

\* two early failures, then two successes: one failure among the last three,
\* so the goal decides
C13_Witness ==
    /\ Recovered
    /\ Len(given.history) = 4
    /\ FailuresAmongLastThree = 1
    /\ HoldsError(given.history[1].result)
    /\ given.goal = <<"show", SP, "statistics">>
    /\ Scalar(returned.action, <<KeyTool>>) = T("get_memory_statistics")

Multiplier100 ==
    100 + 10 * IndicatorSum(given.goal, Len(complexity_indicators))
        + 30 * ConjunctionSum(given.goal, Len(conjunctions))
        + (IF WordCount(given.goal) > 20 THEN 5 * (WordCount(given.goal) - 20) ELSE 0)

RoundedBudget == Max(20, Min((20 * Multiplier100 + 50) \div 100, 200))

C15_BudgetIsRoundedProduct ==
    given.method = "_calculate_adaptive_steps" =>
        \A i \in 1..Len(returned.values) : returned.values[i] = RoundedBudget

\* analyze, one conjunction and one word beyond twenty: 20 * 2.35 is 47, the
\* float product lies just below it
C15_Witness ==
    /\ given.method = "_calculate_adaptive_steps"
    /\ given.goal = GoalWith(<<"analyze">>, 1, 21)
    /\ RoundedBudget = 47
    /\ Len(returned.values) >= 1
    /\ returned.values[1] = 46

\* where no float is rounded on the way the budget is the rounded product
C15_ExactWhereDyadic ==
    /\ given.method = "_calculate_adaptive_steps"
    /\ given.goal = GoalWith(<<"test">>, 0, 0)
    /\ Len(returned.values) >= 1
    /\ returned.values[1] = 36
    /\ RoundedBudget = 36

\* the entry of the last store_memory is among the entries the query returned
StoredReturned == given.id \in Range(returned.ids)
Retrieved ==
    /\ given.method = "store_memory" /\ given.id # None
    /\ returned.method = "retrieve_memories"

\* C16: after store_memory(category, ...), retrieve_memories of that category
\* with the default limit returns the stored entry, whatever rows the database
\* already holds, and retrieve_memories with a list of tags of which the entry
\* has none returns a result without it.
C16_StoredEntryIsRetrieved ==
    Retrieved =>
        /\ returned.category = given.category /\ returned.tags = None => StoredReturned
        /\ /\ returned.tags \notin {None, <<>>}
           /\ Range(returned.tags) \cap Range(given.tags) = {}
           => ~StoredReturned

\* the stored entry is returned from among more rows than the limit, and is
\* left out for a tag it does not have
C16_Witness ==
    /\ Retrieved
    /\ Cardinality(memories) > limit_default
    /\ given.tags # <<>>
    /\ \/ returned.category = given.category /\ returned.tags = None /\ StoredReturned
       \/ returned.tags = <<"other">> /\ ~StoredReturned

\* the pairs learn_from_error was called with, and the last call for a pair
LearnedPairs == {<<c.error_type, c.error_context>> : c \in Range(given.calls)}
LastLesson(pair) ==
    LET at == {i \in 1..Len(given.calls) :
                  <<given.calls[i].error_type, given.calls[i].error_context>> = pair}
    IN  given.calls[CHOOSE i \in at : \A j \in at : j <= i]
RowsOf(pair) ==
    {r \in error_patterns : r.error_type = pair[1] /\ r.error_context = pair[2]}

\* C17: error_patterns holds exactly one row for every pair of an error type
\* and a context that was written, the row holds what the last write for the
\* pair gave, and a write for another pair leaves it in place.
C17_OneRowPerPair ==
    given.method = "learn_from_error" =>
        \A pair \in LearnedPairs :
            /\ Cardinality(RowsOf(pair)) = 1
            /\ \A r \in RowsOf(pair) :
                  r.solution = IF LastLesson(pair).solution = None THEN <<>>
                               ELSE LastLesson(pair).solution

\* a pair written twice has one row, with the later solution, next to the row
\* of another pair
C17_Witness ==
    /\ given.method = "learn_from_error"
    /\ Len(given.calls) = 3
    /\ given.calls[1].error_type = given.calls[3].error_type
    /\ given.calls[1].error_context = given.calls[3].error_context
    /\ given.calls[1].solution # given.calls[3].solution
    /\ <<given.calls[2].error_type, given.calls[2].error_context>>
          # <<given.calls[1].error_type, given.calls[1].error_context>>
    /\ Cardinality(error_patterns) = 2
    /\ \A pair \in LearnedPairs :
          /\ Cardinality(RowsOf(pair)) = 1
          /\ \A r \in RowsOf(pair) : r.created_at >= 2

\* the handler has set the flag; a session summary is in the database
StopRequested == signalled.flag
SummaryStored == \E r \in memories : r.category = SessionSummary

\* a task or a further step of Agent.execute starts
Starts == main'.pc = "execute" /\ (main.pc # "execute" \/ main'.step > main.step)

\* the handler leaves the call in flight as it is
NotAborted == [][~StopRequested /\ StopRequested' => main' = main]_vars
NothingStartedAfterStop == [][StopRequested => ~Starts]_vars
StopLeadsToSummary == StopRequested ~> (main.pc = "returned" /\ SummaryStored)

\* C18: once the signal handler has set the stop flag, the call in flight
\* completes, no further step or task is started, the loop eventually exits,
\* and start_infinite_mode returns with a session summary stored.
C18_GracefulStop ==
    /\ NotAborted
    /\ NothingStartedAfterStop
    /\ StopLeadsToSummary

\* the flag was set during a call of Agent.execute, the call and the task
\* completed, and the loop has exited
C18_Witness ==
    /\ StopRequested
    /\ signalled.pc = "execute"
    /\ runner.goals_completed > 0
    /\ main.pc \in {"returned", "raised"}
    /\ monitor = "exited"

\* the lines of a section of the prompt create_enhanced_prompt returned
Prompted == returned.method = "create_enhanced_prompt"
SectionLines(section) ==
    {i \in 1..Len(returned.prompt) : returned.prompt[i].section = section}
HasNoneLine(section) ==
    \E i, j \in SectionLines(section) :
        /\ returned.prompt[i].line = "header"
        /\ returned.prompt[j].line = "none"
        /\ j = i + 1

\* C19: create_enhanced_prompt returns a prompt for an empty history and for
\* an empty memory context, and in both cases the section is in the prompt,
\* with a line that says there is none.
C19_EmptySectionsSayNone ==
    Prompted =>
        /\ given.history = <<>> => HasNoneLine("history")
        /\ given.context \in {None, <<>>} => HasNoneLine("context")

\* a prompt for an empty history and a context: the history section says that
\* nothing was done, the context section holds the context
C19_Witness ==
    /\ Prompted
    /\ given.history = <<>>
    /\ given.context # <<>> /\ given.context # None
    /\ HasNoneLine("history")
    /\ \E i \in SectionLines("context") : returned.prompt[i].content = given.context

\* a step in which the client returned a text parse_response made no action of
RecoveryStep ==
    /\ model_calls' = model_calls + 1
    /\ ~response'.raised
    /\ prompt_engine.parse_response[response'.text].none
    /\ ~prompt_engine.parse_response[response'.text].raised

\* the step works on the action a as on one the model supplied: finish and
\* no_op are stored, any other tool is invoked with the args of a, its result
\* appended to the history and stored, and one step is used
TakenAsAction(a) ==
    /\ decided' = a
    /\ a.recovered
    /\ a.tool = FINISH =>
          /\ outcome' = "finished"
          /\ CopiesIn(goal_accomplished_entry(self_goal, GetText(a.args, T("reason"))), memory')
               > CopiesIn(goal_accomplished_entry(self_goal, GetText(a.args, T("reason"))), memory)
    /\ a.tool = NO_OP =>
          CopiesIn(no_op_entry(self_goal, GetText(a.args, T("reason"))), memory')
            > CopiesIn(no_op_entry(self_goal, GetText(a.args, T("reason"))), memory)
    /\ a.tool \notin {FINISH, NO_OP} =>
          /\ dispatches' = dispatches + 1
          /\ invoked'.via = "execute" /\ invoked'.tool = a.tool /\ invoked'.args = a.args
          /\ invoked'.consent_before = session_consent_given
          /\ history' = Append(history, [action |-> a.tool, args |-> a.args,
                                         result |-> invoked'.call.result])
          /\ CopiesIn(tool_usage_entry(a.tool), memory')
               = CopiesIn(tool_usage_entry(a.tool), memory) + 1
    /\ \/ step' = step + 1 /\ pc' = "loop"
       \/ step' = step /\ pc' = "idle"

\* C20: when parse_response returns no action, the action suggest_recovery_action
\* returns for the current goal and the history takes its place, and it is
\* validated, gated, dispatched, appended to the history and stored as an
\* action of the model is, in one step.
C20_RecoveryIsAnOrdinaryStep ==
    [][RecoveryStep => TakenAsAction(NextAction(response'.text, self_goal, history))]_vars

\* the same with the recovery action of the goal the run was started with
C20_ForTheGoalOfTheRun ==
    [][RecoveryStep => TakenAsAction(NextAction(response'.text, goal, history))]_vars

\* a recovery action was dispatched and its result appended to the history
C20_Witness ==
    /\ decided.recovered
    /\ decided.tool = T("list_directory")
    /\ invoked.via = "execute" /\ invoked.tool = decided.tool
    /\ history # <<>>
    /\ history[Len(history)].action = decided.tool
    /\ history[Len(history)].result = invoked.call.result
    /\ step = 2

\* ---- the self-test of the loop
SelfTests(rows) ==
    CopiesIn(self_test_entry(TRUE), rows) + CopiesIn(self_test_entry(FALSE), rows)

\* the loop goes from step k to step k + 1
Proceeds == pc = "loop" /\ pc' = "loop" /\ step' = step + 1

\* C21: a step k of a run with k mod 10 = 0 or k >= 0.8 * ceiling stores one
\* self_test entry before the loop proceeds to step k + 1, also when its action
\* was a no_op answered with a clarification, and a step for which the
\* condition is false stores none.
C21_SelfTestWhenDue ==
    [][Proceeds =>
         SelfTests(memory') = SelfTests(memory)
                                + (IF _should_self_test(step, max_steps) THEN 1 ELSE 0)]_vars

\* a step stores no self_test entry unless the condition holds for it
C21_NoSelfTestUnlessDue ==
    [][SelfTests(memory') # SelfTests(memory) =>
         /\ pc = "loop" /\ _should_self_test(step, max_steps)
         /\ SelfTests(memory') = SelfTests(memory) + 1]_vars

\* a due step ended in the no_op branch, the operator clarified, and the loop is
\* at the next step
C21_Witness ==
    /\ pc = "loop" /\ step > 1
    /\ _should_self_test(step - 1, max_steps)
    /\ decided.tool = NO_OP
    /\ clarifications = 1
    /\ self_goal # goal
    /\ SelfTests(memory) = 0

\* the step ran _iterate_and_improve
SelfTested == pc = "loop" /\ tested' # tested

\* what follows the self-test: the run ends when the operator declines
AnswerDecides ==
    IF tested'.asked /\ ~tested'.reply
    THEN pc' = "idle" /\ outcome' = "stopped"
    ELSE pc' = "loop" /\ step' = step + 1

\* C22: during the self-test of step k the operator is asked whether to
\* continue exactly when the progress score is below 0.3 and more than 5 steps
\* of the run have elapsed; declining ends the run, accepting continues with
\* step k + 1.
C22_AskedWhenLowAfterFiveSteps ==
    [][SelfTested =>
         /\ tested'.asked <=> (ProgressBelow03(history') /\ step > 5)
         /\ AnswerDecides]_vars

\* the same with the number of history entries in place of the steps
C22_AskedWhenLowAfterFiveEntries ==
    [][SelfTested =>
         /\ tested'.asked <=> (ProgressBelow03(history') /\ Len(history') > 5)
         /\ AnswerDecides]_vars

\* the self-test of step 7 found a progress score below 0.3 and did not ask:
\* two of the steps were no_op steps, so the history holds five entries
C22_Witness ==
    /\ tested.step = 7 /\ step = 8
    /\ ~tested.asked
    /\ ProgressBelow03(history)
    /\ Len(history) = 5
    /\ clarifications = 2

\* ---- the no_op branch
NonSuccessEntries(rows) == CopiesOf({e \in BagToSet(rows) : ~e.success}, rows)

\* an iteration whose action, after parsing, recovery and validation, is no_op
NoOpStep ==
    /\ pc = "loop"
    /\ model_calls' = model_calls + 1
    /\ ~response'.raised
    /\ LET a == NextAction(response'.text, goal, history)
       IN  ~a.raised /\ a.tool = NO_OP

\* C23: a no_op action invokes no tool and appends nothing to the history; it
\* stores exactly one entry without the success flag and then asks the operator;
\* on an empty reply the run ends and no further model call is made in it.
C23_NoOpOnlyAsks ==
    /\ [][NoOpStep =>
            /\ history' = history
            /\ invoked' = invoked /\ dispatches' = dispatches
            /\ NonSuccessEntries(memory') = NonSuccessEntries(memory) + 1
            /\ CopiesIn(no_op_entry(self_goal, GetText(decided'.args, T("reason"))), memory')
                 = CopiesIn(no_op_entry(self_goal, GetText(decided'.args, T("reason"))), memory) + 1
            /\ \/ pc' = "idle" /\ outcome' = "no_clarification" /\ self_goal' = self_goal
               \/ pc' = "loop" /\ step' = step + 1 /\ self_goal' # self_goal]_vars
    /\ [][model_calls' # model_calls /\ runs' = runs => pc = "loop"]_vars

\* the model answered no_op to the first prompt and the operator replied nothing
C23_Witness ==
    /\ outcome = "no_clarification" /\ pc = "idle"
    /\ decided.tool = NO_OP /\ ~decided.recovered
    /\ model_calls = 1
    /\ history = <<>> /\ invoked = NoCall
    /\ NonSuccessEntries(memory) = 1

\* ---- the session consent of execute
ExecuteCalled == pc = "idle" /\ runs' = runs + 1

AppendedOne ==
    /\ Len(history') = Len(history) + 1
    /\ SubSeq(history', 1, Len(history)) = history
    /\ LET e == history'[Len(history')]
       IN  /\ DOMAIN e = {"action", "args", "result"}
           /\ e.action = decided'.tool /\ e.args = decided'.args
           /\ e.result = invoked'.call.result

\* C25: every execute call starts with an empty history; during the call a step
\* leaves the history unchanged or appends one entry {action, args, result} at
\* its end, and no entry is removed, reordered or modified before the next
\* execute call clears the history.
C25_HistoryAppendOnly ==
    /\ [][ExecuteCalled => history' = <<>>]_vars
    /\ [][~ExecuteCalled => \/ history' = history
                            \/ pc = "loop" /\ AppendedOne]_vars

\* a step has appended a second entry behind the first of the run
C25_Witness ==
    /\ pc = "loop"
    /\ Len(history) = 2
    /\ history[1] # history[2]
    /\ history[1].args # EmptyDict
    /\ history[2].action = decided.tool /\ history[2].result = invoked.call.result
    /\ dispatches = 2

\* ---- the threads of infinite mode
\* Agent.execute is in progress: one model call or tool invocation is in flight
Executing == main.pc = "execute"

\* the rows of earlier sessions that are left in the database
OldRows == {r \in memories : r.timestamp < 0}

\* a step of the monitoring thread: its loop ends, or its cleanup deletes rows
MonitorStep ==
    /\ monitor = "started"
    /\ monitor' # monitor \/ (memories' # memories /\ now' = now)

\* C26: a step of execute starts only when the step before it has completed
\* and an execute only when none is in progress, so at most one model call and
\* one tool invocation is outstanding; in infinite mode the monitoring thread
\* issues no model call, invokes no tool and starts no execute, whatever the
\* interleaving with the main loop.
C26_OneStepAtATime ==
    /\ [][main' # main /\ main'.pc = "execute" =>
            \/ /\ main.pc = "top" /\ main'.step = 1
               /\ runner.task_queue # <<>> /\ runner'.task_queue = Tail(runner.task_queue)
            \/ /\ Executing /\ main'.step = main.step + 1
               /\ runner' = runner]_vars
    /\ [][MonitorStep => UNCHANGED <<main, runner, Unrelated, parsing, calling>>]_vars
    /\ [](Executing => main.step \in 1..MaxTaskSteps)

\* the second step of an execute is in progress and the monitoring thread has
\* deleted old rows since the initial tests stored their report
C26_Witness ==
    /\ Executing /\ main.step = 2
    /\ monitor = "started" /\ runner.running
    /\ now = 1
    /\ Cardinality(OldRows) = days - 1

\* C27: session consent, once granted on an agent, is never reset: every later
\* execute call on it starts its loop without asking, and a tool call asks for
\* the consent only while it has not been granted.
C27_ConsentIsKept ==
    /\ [][session_consent_given => session_consent_given']_vars
    /\ [][ExecuteCalled /\ session_consent_given =>
            pc' = "loop" /\ outcome' = "none" /\ step' = 1]_vars
    /\ [][invoked' # invoked /\ invoked'.call.asked_consent => ~session_consent_given]_vars

\* the second execute call on an agent whose operator granted the consent has
\* started its loop
C27_Witness ==
    /\ runs = 2 /\ pc = "loop" /\ step = 1
    /\ ~no_confirm /\ session_consent_given
    /\ model_calls = 0

\* ---- the initial tests of infinite mode
\* _run_initial_tests has returned without storing its report: the tests
\* scored below 50% and the operator answered no to "Continue anyway?"
DeclinedAfterTests ==
    /\ main.pc \notin {"created", "tests"}
    /\ \A r \in memories : r.category # <<"system_test">>

InMainLoop == main.pc \in {"top", "execute", "rest"}

\* C28: when the initial tests score below 50% and the operator answers no to
\* "Continue anyway?", the main loop is not entered, no queued task is taken
\* and agent.execute is not called.
C28_DeclinedTestsRunNothing ==
    [](DeclinedAfterTests =>
          /\ ~InMainLoop
          /\ runner.goals_completed = 0 /\ runner.errors_encountered = 0)

\* the operator declined after the initial tests and the execution of the
\* queued initial goal is in progress
C28_Witness ==
    /\ DeclinedAfterTests
    /\ Executing
    /\ runner.task_queue = <<>> /\ runner.current_task_index = 0

\* ---- the tasks of infinite mode
\* _process_next_task ends: execute has returned or raised
TaskEnds == Executing /\ main'.pc # "execute"

TaskDequeued == Len(runner'.task_queue) < Len(runner.task_queue)

CompletionRows == {r \in memories : r.category = <<"task_completion">>}

\* C29: every task taken from the queue is executed and increments exactly one
\* of goals_completed and errors_encountered, by one; goals_completed counts
\* the tasks whose execute returned without raising, however the run ended.
C29_EveryTaskIsCounted ==
    /\ [][TaskDequeued =>
            /\ runner'.task_queue = Tail(runner.task_queue)
            /\ main.pc = "top" /\ main'.pc = "execute"]_vars
    /\ [][TaskEnds =>
            \/ /\ runner'.goals_completed = runner.goals_completed + 1
               /\ runner'.errors_encountered = runner.errors_encountered
               /\ error_patterns' = error_patterns
            \/ /\ runner'.errors_encountered = runner.errors_encountered + 1
               /\ runner'.goals_completed = runner.goals_completed
               /\ memories' = memories]_vars
    /\ [][runner'.goals_completed # runner.goals_completed => TaskEnds]_vars
    /\ [](runner.goals_completed = Cardinality(CompletionRows))

\* two tasks were taken from the queue: the execute of one returned and that
\* of the other raised
C29_Witness ==
    /\ main.pc = "rest"
    /\ runner.task_queue = <<>> /\ runner.current_task_index = 1
    /\ runner.goals_completed = 1 /\ runner.errors_encountered = 1
    /\ \E e \in error_patterns : e.error_type = <<"task_execution_error">>

\* the tasks of a queue are in the order they were added in
InOrder(queue) ==
    \A i, j \in 1..Len(queue) : i < j => queue[i].added_at <= queue[j].added_at

TaskAdded == Len(runner'.task_queue) > Len(runner.task_queue)

\* C30: tasks are executed in the order they were added to the queue,
\* whatever their priority, and each at most once: a taken task is removed from
\* the queue, and a task whose execution raises is not put back.
C30_TasksInInsertionOrder ==
    /\ [][TaskDequeued =>
            /\ main.pc = "top" /\ main'.pc = "execute"
            /\ main'.task = Head(runner.task_queue)
            /\ runner'.task_queue = Tail(runner.task_queue)]_vars
    /\ [][TaskAdded =>
            /\ ~Executing' \/ main' = main
            /\ \E t \in {runner'.task_queue[Len(runner'.task_queue)]} :
                  /\ runner'.task_queue = Append(runner.task_queue, t)
                  /\ t.added_at = now']_vars
    /\ [][TaskEnds => runner'.task_queue = runner.task_queue]_vars
    /\ [](InOrder(runner.task_queue))
    /\ [](Executing =>
            \A i \in 1..Len(runner.task_queue) :
               main.task.added_at <= runner.task_queue[i].added_at)

\* a task of medium priority is being executed while one of high priority that
\* was added after it waits in the queue, and an earlier task has raised
C30_Witness ==
    /\ Executing
    /\ main.task.priority = "medium"
    /\ runner.task_queue # <<>>
    /\ Head(runner.task_queue).priority = "high"
    /\ Head(runner.task_queue).added_at > main.task.added_at
    /\ runner.errors_encountered = 1
    /\ \E e \in error_patterns : e.error_type = <<"task_execution_error">>
====
